---- MODULE Spec2Model ----
(***************************************************************************)
(* Model of the Backlog firearm-licence tracker: the working-day calendar  *)
(* (utils/holidays.ts), the notification service                           *)
(* (services/notificationService.ts) and the handlers of FirearmTracker    *)
(* that drive it.                                                          *)
(*                                                                         *)
(* A Date is an instant, counted in seconds since 1970-01-01T00:00Z.  A    *)
(* date string 'YYYY-MM-DD' is a day number (days since 1970-01-01); the   *)
(* JavaScript Date constructor reads it as midnight UTC of that day.  The  *)
(* device runs in South Africa Standard Time, a fixed offset without       *)
(* daylight saving, so local calendar arithmetic (setDate) moves an        *)
(* instant by whole days of 86400 seconds.                                  *)
(***************************************************************************)
EXTENDS Integers, Sequences, FiniteSets, TLC

VARIABLES
    now,                  \* the wall clock, an instant
    platform,             \* "native" or "web": Capacitor.isNativePlatform()
    firearms,             \* localStorage 'firearm_records'
    applications,         \* localStorage 'firearm_applications'
    settings,             \* localStorage 'firearm_notification_settings'
    schedule,             \* localStorage 'firearm_notification_schedule'
    applicationSchedule,  \* localStorage 'application_notification_schedule'
    pending,              \* reminders registered with LocalNotifications
    notificationCounter,  \* NotificationService.notificationCounter
    issued,               \* ids returned by getNextNotificationId since the process started
    nextRecordId,         \* stands for Date.now().toString() of the next record
    faulty,               \* whether the native capability may reject a call
    steps,                \* the number of handler runs and clock changes so far
    tasks,                \* the asynchronous calls suspended at an await
    fetch,                \* the status lookup of fetchFirearmStatus in progress
    details,              \* the other fields of the stored records, by record id
    list,                 \* the state of the ApplicationList component
    lookups,              \* the handleCheckStatus calls awaiting their lookup
    server,               \* the ServerStatus component, its timer and probes
    last                  \* the handler that ran last, with its arguments

vars == <<now, platform, firearms, applications, settings, schedule,
          applicationSchedule, pending, notificationCounter, issued,
          nextRecordId, faulty, steps, tasks, fetch, details, list,
          lookups, server, last>>

----------------------------------------------------------------------------
(* Bounds of the model *)

MaxRecords == 2
MaxSteps == 5
MaxCounter == 1012
MaxTasks == 2
MaxLookups == 2
MaxProbeTicks == 7
MaxEvents == 3

(* Program constants *)

SecondsPerDay == 86400
CounterSeed == 1000
OverdueWarnFrom == 88
OverdueFrom == 90
ProjectionBase == 92

\* SAST is UTC+2, in seconds
sastOffset == 2 * 60 * 60

----------------------------------------------------------------------------
(* Sequence helpers (Array.prototype.filter / find / map) *)

Range(s) == { s[i] : i \in 1..Len(s) }

----------------------------------------------------------------------------
(* Calendar: Date fields in local time *)

\* new Date('YYYY-MM-DD'): midnight UTC of the day
DateFromISO(day) == day * SecondsPerDay

\* the local calendar day an instant falls on
LocalDay(t) == (t + sastOffset) \div SecondsPerDay

\* Date.getDay(): 0 = Sunday .. 6 = Saturday; 1970-01-01 was a Thursday
getDay(t) == (LocalDay(t) + 4) % 7

\* The civil date (year, month, day) of a day number.  Each step of the
\* computation is an operator that receives the values computed so far.
CivilRecord(era, yoe, doy, mp) ==
    [ year  |-> yoe + era * 400
                 + (IF (IF mp < 10 THEN mp + 3 ELSE mp - 9) <= 2 THEN 1 ELSE 0),
      month |-> IF mp < 10 THEN mp + 3 ELSE mp - 9,
      day   |-> doy - (153 * mp + 2) \div 5 + 1 ]

CivilFromDayOfYear(era, yoe, doy) ==
    CivilRecord(era, yoe, doy, (5 * doy + 2) \div 153)

CivilFromYearOfEra(era, doe, yoe) ==
    CivilFromDayOfYear(era, yoe,
                       doe - (365 * yoe + yoe \div 4 - yoe \div 100))

CivilFromDayOfEra(era, doe) ==
    CivilFromYearOfEra(era, doe,
        (doe - doe \div 1460 + doe \div 36524 - doe \div 146096) \div 365)

CivilFromShifted(z) ==
    CivilFromDayOfEra(z \div 146097, z - (z \div 146097) * 146097)

CivilFromDays(z0) == CivilFromShifted(z0 + 719468)

\* the day number of a civil date: new Date(year, month - 1, day)
DaysFromYearOfEra(era, yoe, doy) ==
    era * 146097 + (yoe * 365 + yoe \div 4 - yoe \div 100 + doy) - 719468

DaysFromShiftedYear(y, mp, d) ==
    DaysFromYearOfEra(y \div 400, y - (y \div 400) * 400,
                      (153 * mp + 2) \div 5 + d - 1)

DaysFromCivil(y0, m, d) ==
    DaysFromShiftedYear(IF m <= 2 THEN y0 - 1 ELSE y0,
                        IF m > 2 THEN m - 3 ELSE m + 9, d)

getFullYear(t) == CivilFromDays(LocalDay(t)).year

\* format(date, 'MM-dd'), as the pair <<month, day>>
MonthDay(c) == <<c.month, c.day>>

formatMMdd(t) == MonthDay(CivilFromDays(LocalDay(t)))

FIXED_HOLIDAYS ==
    { <<1, 1>>, <<3, 21>>, <<4, 27>>, <<5, 1>>, <<6, 16>>, <<8, 9>>,
      <<9, 24>>, <<12, 16>>, <<12, 25>>, <<12, 26>> }

\* Easter Sunday of a year, as the instant of its local midnight.  The
\* operators below carry the variables a, b, c, h, l, m of getEasterDate;
\* d, e, f, g, i and k are written out where they are used.
EasterH(a, b) ==
    (19 * a + b - b \div 4 - ((b - (b + 8) \div 25 + 1) \div 3) + 15) % 30

EasterL(b, c, h) ==
    (32 + 2 * (b % 4) + 2 * (c \div 4) - h - (c % 4)) % 7

EasterM(a, h, l) == (a + 11 * h + 22 * l) \div 451

EasterDate(year, h, l, m) ==
    DaysFromCivil(year,
                  (h + l - 7 * m + 114) \div 31,
                  ((h + l - 7 * m + 114) % 31) + 1) * SecondsPerDay
      - sastOffset

EasterFromL(year, a, h, l) == EasterDate(year, h, l, EasterM(a, h, l))

EasterFromH(year, a, b, c, h) == EasterFromL(year, a, h, EasterL(b, c, h))

getEasterDate(year) ==
    EasterFromH(year, year % 19, year \div 100, year % 100,
                EasterH(year % 19, year \div 100))

\* the two days taken within the month of Easter Sunday
EasterHolidaysSameMonth(easter) ==
    { <<CivilFromDays(LocalDay(easter)).month, CivilFromDays(LocalDay(easter)).day - 2>>,
      <<CivilFromDays(LocalDay(easter)).month, CivilFromDays(LocalDay(easter)).day + 1>> }

\* goodFriday.setDate(easter.getDate() - 2), familyDay.setDate(... + 1)
EasterHolidays(easter) ==
    { formatMMdd(easter - 2 * SecondsPerDay),
      formatMMdd(easter + 1 * SecondsPerDay) }

getEasterBasedHolidays(year) == EasterHolidays(getEasterDate(year))

\* the Easter holidays of 2024 taken for every year
isPublicHolidayOfOneYear(t) ==
    \/ formatMMdd(t) \in FIXED_HOLIDAYS
    \/ formatMMdd(t) \in getEasterBasedHolidays(2024)

isPublicHoliday(t) ==
    \/ formatMMdd(t) \in FIXED_HOLIDAYS
    \/ formatMMdd(t) \in getEasterBasedHolidays(getFullYear(t))

isWeekend(t) == getDay(t) \in {0, 6}

\* weekdays, holidays included
isWorkingDayWeekdays(t) == ~isWeekend(t)

isWorkingDay(t) == ~isWeekend(t) /\ ~isPublicHoliday(t)

\* a loop that stops before endDate
WorkingDayStepExclusive(current, endDate) ==
    current < endDate /\ isWorkingDay(current)

\* One pass of the loop body of calculateWorkingDays: the loop condition
\* and the test that increments workingDays, for one value of current.
WorkingDayStep(current, endDate) ==
    current <= endDate /\ isWorkingDay(current)

\* The while loop of calculateWorkingDays, walking day by day.  The seven
\* passes of a week are taken in one recursive step to keep the evaluation
\* shallow.
RECURSIVE WorkingDaysLoop(_, _)
WorkingDaysLoop(current, endDate) ==
    IF current <= endDate
    THEN Cardinality({ k \in 0..6 :
                         WorkingDayStep(current + k * SecondsPerDay, endDate) })
         + WorkingDaysLoop(current + 7 * SecondsPerDay, endDate)
    ELSE 0

\* The inputs of the model.  The base day is 2024-09-19, a Thursday.
BaseDay == DaysFromCivil(2024, 9, 19)

\* The instants the clock takes: 01:00 and 02:00 SAST of the base day (the
\* latter is midnight UTC), and 02:00 SAST of the next day.
NowChoices == << BaseDay * SecondsPerDay - 3600,
                 BaseDay * SecondsPerDay,
                 (BaseDay + 1) * SecondsPerDay >>

\* Expiry dates of firearm records: the day after the base day, ten days
\* after it, a year and a day after it.
ExpiryChoices == { BaseDay + 1, BaseDay + 10, BaseDay + 366 }

\* Application dates: 2024-05-20 and 2024-05-16; the inclusive working-day
\* counts at the three instants are 87, 88, 89 and 89, 90, 91.
DateAppliedChoices == { DaysFromCivil(2024, 5, 20), DaysFromCivil(2024, 5, 16) }

\* Application dates a status lookup is made for: the two above, and
\* 2024-05-15 and 2024-05-09, whose counts at the three instants are
\* 90, 91, 92 and 94, 95, 96.
LookupDateChoices ==
    DateAppliedChoices \cup { DaysFromCivil(2024, 5, 15), DaysFromCivil(2024, 5, 9) }

\* The instants of the night of BaseDay: 23:59:59, 00:00:00, 00:29:59,
\* 00:30:00 and 01:00:00 SAST
ListNowChoices ==
    << DateFromISO(BaseDay) - sastOffset - 1,
       DateFromISO(BaseDay) - sastOffset,
       DateFromISO(BaseDay) - sastOffset + 29 * 60 + 59,
       DateFromISO(BaseDay) - sastOffset + 30 * 60,
       DateFromISO(BaseDay) - sastOffset + 60 * 60 >>

\* The counts for the dates and instants of the model, evaluated once.
WorkingDaysTable ==
    [ p \in { <<DateFromISO(d), t>> :
                 d \in LookupDateChoices,
                 t \in Range(NowChoices) \cup Range(ListNowChoices) } |->
        WorkingDaysLoop(p[1], p[2]) ]

\* a count that takes the two dates in either order
calculateWorkingDaysEitherOrder(startDate, endDate) ==
    IF startDate <= endDate THEN WorkingDaysLoop(startDate, endDate)
    ELSE WorkingDaysLoop(endDate, startDate)

calculateWorkingDays(startDate, endDate) ==
    IF <<startDate, endDate>> \in DOMAIN WorkingDaysTable
    THEN WorkingDaysTable[<<startDate, endDate>>]
    ELSE WorkingDaysLoop(startDate, endDate)

----------------------------------------------------------------------------
(* The notification capability (LocalNotifications of Capacitor)           *)
(*                                                                         *)
(* A handler works on a service state S: the two persisted schedules, the  *)
(* pending reminders, the counter, and the oracle of the native calls of   *)
(* this handler run: the call number S.calls + 1 is rejected when it is in *)
(* S.rej.  S.threw is the exception in flight.                             *)

Service(rej) ==
    [ schedule |-> schedule,
      applicationSchedule |-> applicationSchedule,
      pending |-> pending,
      notificationCounter |-> notificationCounter,
      issued |-> issued,
      calls |-> 0,
      rej |-> rej,
      threw |-> FALSE ]

\* a platform check that answers native everywhere
isNativePlatformAlways == TRUE

isNativePlatform == platform = "native"

\* LocalNotifications.schedule({notifications}): registers the reminders; a
\* reminder with the id of a pending one replaces it.
LocalNotificationsSchedule(S, notifications) ==
    IF (S.calls + 1) \in S.rej
    THEN [S EXCEPT !.calls = @ + 1, !.threw = TRUE]
    ELSE [S EXCEPT !.calls = @ + 1,
                   !.pending = { p \in @ : \A i \in 1..Len(notifications) :
                                               notifications[i].id # p.id }
                               \cup Range(notifications)]

\* LocalNotifications.cancel({notifications: ids})
LocalNotificationsCancel(S, ids) ==
    IF (S.calls + 1) \in S.rej
    THEN [S EXCEPT !.calls = @ + 1, !.threw = TRUE]
    ELSE [S EXCEPT !.calls = @ + 1,
                   !.pending = { p \in @ : p.id \notin Range(ids) }]

\* the application reminders registered with the native capability
ApplicationPending == { p \in pending : p.type = "application_pending" }

\* the catch blocks of the service: log the error and go on
Caught(S) == [S EXCEPT !.threw = FALSE]

----------------------------------------------------------------------------
(* NotificationService *)

\* a counter that is read but not advanced
getNextNotificationIdStuck(S) ==
    [ id |-> S.notificationCounter,
      S  |-> [S EXCEPT !.issued = Append(@, S.notificationCounter)] ]

getNextNotificationId(S) ==
    [ id |-> S.notificationCounter,
      S  |-> [S EXCEPT !.notificationCounter = @ + 1,
                       !.issued = Append(@, S.notificationCounter)] ]

\* Array.prototype.findIndex on the firearm schedule, 0 when absent
FindFirearmSchedule(sched, firearmId) ==
    IF \E i \in 1..Len(sched) : sched[i].firearmId = firearmId
    THEN CHOOSE i \in 1..Len(sched) :
            /\ sched[i].firearmId = firearmId
            /\ \A j \in 1..(i - 1) : sched[j].firearmId # firearmId
    ELSE 0

FindApplicationSchedule(sched, applicationId) ==
    IF \E i \in 1..Len(sched) : sched[i].applicationId = applicationId
    THEN CHOOSE i \in 1..Len(sched) :
            /\ sched[i].applicationId = applicationId
            /\ \A j \in 1..(i - 1) : sched[j].applicationId # applicationId
    ELSE 0

\* a cancel that finds no entry, whatever the schedule holds
cancelFirearmNotificationsCallSkipped(S, firearmId) ==
    [ S |-> S, awaiting |-> FALSE, loaded |-> S.schedule ]

\* cancelFirearmNotifications up to its await: the schedule is loaded and,
\* when the record has an entry with ids, LocalNotifications.cancel is called
cancelFirearmNotificationsCall(S, firearmId) ==
    LET idx == FindFirearmSchedule(S.schedule, firearmId)
    IN  IF idx > 0 /\ Len(S.schedule[idx].notificationIds) > 0
        THEN [ S |-> LocalNotificationsCancel(S, S.schedule[idx].notificationIds),
               awaiting |-> TRUE,
               loaded |-> S.schedule ]
        ELSE [ S |-> S, awaiting |-> FALSE, loaded |-> S.schedule ]

\* a cancel that tells the native capability but keeps the record's entry
cancelFirearmNotificationsSaveKept(S, firearmId, loaded) ==
    IF S.threw THEN Caught(S)
    ELSE S

\* cancelFirearmNotifications after its await: the schedule that was loaded
\* before the await is filtered and saved
cancelFirearmNotificationsSave(S, firearmId, loaded) ==
    IF S.threw THEN Caught(S)
    ELSE [S EXCEPT !.schedule =
             SelectSeq(loaded, LAMBDA e : e.firearmId # firearmId)]

cancelFirearmNotifications(S, firearmId) ==
    IF ~isNativePlatform THEN S
    ELSE
      LET c == cancelFirearmNotificationsCall(S, firearmId)
      IN  IF c.awaiting
          THEN cancelFirearmNotificationsSave(c.S, firearmId, c.loaded)
          ELSE S

\* days before expiry at which a reminder is due
intervals == <<365, 180, 90, 60, 30, 14, 7, 3, 1>>

\* tiers in which the urgent tone starts at 14 days instead of 7
FirearmTitleLate(days) ==
    IF days >= 365 THEN "1 Year Notice"
    ELSE IF days >= 90 THEN "Time to start renewal"
    ELSE IF days >= 30 THEN "Renewal required"
    ELSE IF days >= 14 THEN "URGENT"
    ELSE "CRITICAL"

\* the tone of the title and body chosen for an interval
FirearmTitle(days) ==
    IF days >= 365 THEN "1 Year Notice"
    ELSE IF days >= 90 THEN "Time to start renewal"
    ELSE IF days >= 30 THEN "Renewal required"
    ELSE IF days >= 7 THEN "URGENT"
    ELSE "CRITICAL"

\* notificationDate = new Date(expiryDate); setDate(getDate() - days)
NotificationDate(expiryDate, days) ==
    DateFromISO(expiryDate) - days * SecondsPerDay

\* a filter that also keeps a reminder due at this very instant
isInFutureOrNow(notificationDate, today) == notificationDate >= today

\* if (notificationDate > today)
isInFuture(notificationDate, today) == notificationDate > today

\* the for loop of scheduleFirearmNotifications from interval i on;
\* acc holds the service state and the notifications built so far
RECURSIVE FirearmIntervalLoop(_, _, _, _)
FirearmIntervalLoop(acc, firearm, today, i) ==
    IF i > Len(intervals) THEN acc
    ELSE
      LET days == intervals[i]
          notificationDate == NotificationDate(firearm.expiryDate, days)
      IN  IF isInFuture(notificationDate, today)
          THEN LET g == getNextNotificationId(acc.S)
               IN  FirearmIntervalLoop(
                     [ S |-> g.S,
                       notificationIds |-> Append(acc.notificationIds, g.id),
                       notifications |-> Append(acc.notifications,
                          [ id |-> g.id,
                            title |-> FirearmTitle(days),
                            at |-> notificationDate,
                            type |-> "firearm",
                            ref |-> firearm.id,
                            days |-> days ]) ],
                     firearm, today, i + 1)
          ELSE FirearmIntervalLoop(acc, firearm, today, i + 1)

\* scheduleFirearmNotifications between its two awaits: the reminders are
\* built and, when there are any, LocalNotifications.schedule is called
scheduleFirearmNotificationsCall(S1, firearm, today) ==
    LET b == FirearmIntervalLoop(
                [S |-> S1, notificationIds |-> <<>>, notifications |-> <<>>],
                firearm, today, 1)
    IN  IF Len(b.notifications) > 0
        THEN [ S |-> LocalNotificationsSchedule(b.S, b.notifications),
               awaiting |-> TRUE,
               notificationIds |-> b.notificationIds ]
        ELSE [ S |-> b.S, awaiting |-> FALSE, notificationIds |-> <<>> ]

\* a save whose rejection is not caught, so that it reaches the next record
scheduleFirearmNotificationsSaveUncaught(S2, firearm, notificationIds) ==
    LET existingIndex == FindFirearmSchedule(S2.schedule, firearm.id)
        newSchedule ==
          [ firearmId |-> firearm.id,
            expiryDate |-> firearm.expiryDate,
            notificationIds |-> notificationIds ]
    IN  IF S2.threw THEN S2
        ELSE IF existingIndex > 0
        THEN [S2 EXCEPT !.schedule[existingIndex] = newSchedule]
        ELSE [S2 EXCEPT !.schedule = Append(@, newSchedule)]

\* scheduleFirearmNotifications after its second await: the schedule is
\* loaded again, the record's entry is replaced or appended, and saved
scheduleFirearmNotificationsSave(S2, firearm, notificationIds) ==
    LET existingIndex == FindFirearmSchedule(S2.schedule, firearm.id)
        newSchedule ==
          [ firearmId |-> firearm.id,
            expiryDate |-> firearm.expiryDate,
            notificationIds |-> notificationIds ]
    IN  IF S2.threw THEN Caught(S2)
        ELSE IF existingIndex > 0
        THEN [S2 EXCEPT !.schedule[existingIndex] = newSchedule]
        ELSE [S2 EXCEPT !.schedule = Append(@, newSchedule)]

scheduleFirearmNotifications(S, firearm, today) ==
    IF ~isNativePlatform THEN S
    ELSE
      LET S1 == cancelFirearmNotifications(S, firearm.id)
          c  == scheduleFirearmNotificationsCall(S1, firearm, today)
      IN  IF c.awaiting
          THEN scheduleFirearmNotificationsSave(c.S, firearm, c.notificationIds)
          ELSE c.S

\* allIds.push(...s.notificationIds) over the whole schedule
RECURSIVE AllFirearmIds(_)
AllFirearmIds(sched) ==
    IF sched = <<>> THEN <<>>
    ELSE Head(sched).notificationIds \o AllFirearmIds(Tail(sched))

\* a cancel-all that cancels natively but keeps the persisted schedule
cancelAllNotificationsKept(S) ==
    IF ~isNativePlatform THEN S
    ELSE
      LET allIds == AllFirearmIds(S.schedule)
          S1 == IF Len(allIds) > 0 THEN LocalNotificationsCancel(S, allIds) ELSE S
      IN  IF S1.threw THEN Caught(S1) ELSE S1

cancelAllNotifications(S) ==
    IF ~isNativePlatform THEN S
    ELSE
      LET allIds == AllFirearmIds(S.schedule)
          S1 == IF Len(allIds) > 0 THEN LocalNotificationsCancel(S, allIds) ELSE S
      IN  IF S1.threw THEN Caught(S1)
          ELSE [S1 EXCEPT !.schedule = <<>>]

\* the for loop of rescheduleAllFirearms
RECURSIVE ScheduleEach(_, _, _)
ScheduleEach(S, records, today) ==
    IF records = <<>> THEN S
    ELSE ScheduleEach(scheduleFirearmNotifications(S, Head(records), today),
                      Tail(records), today)

rescheduleAllFirearms(S, records, today) ==
    ScheduleEach(cancelAllNotifications(S), records, today)

scheduleTestNotification(S, today) ==
    IF ~isNativePlatform THEN S
    ELSE
      LET g == getNextNotificationId(S)
          S1 == LocalNotificationsSchedule(g.S,
                  << [ id |-> g.id, title |-> "Test Notification",
                       at |-> today + 10, type |-> "test",
                       ref |-> 0, days |-> 0 ] >>)
      IN  IF S1.threw THEN Caught(S1) ELSE S1

\* a cancel-all that clears the persisted schedule without the native cancel
cancelAllApplicationNotificationsUntold(S) ==
    IF ~isNativePlatform THEN S
    ELSE [S EXCEPT !.applicationSchedule = <<>>]

cancelAllApplicationNotifications(S) ==
    IF ~isNativePlatform THEN S
    ELSE
      LET allIds == [i \in 1..Len(S.applicationSchedule) |->
                        S.applicationSchedule[i].notificationId]
          S1 == IF Len(allIds) > 0 THEN LocalNotificationsCancel(S, allIds) ELSE S
      IN  IF S1.threw THEN Caught(S1)
          ELSE [S1 EXCEPT !.applicationSchedule = <<>>]

\* a projection that counts from 90 instead of 92
ApplicationNotificationDateShort(workingDaysPending, today) ==
    IF workingDaysPending >= OverdueFrom
    THEN today + 60
    ELSE today + (OverdueFrom - workingDaysPending) * SecondsPerDay

\* the fire time chosen for an application that has been pending
\* workingDaysPending working days
ApplicationNotificationDate(workingDaysPending, today) ==
    IF workingDaysPending >= OverdueFrom
    THEN today + 60
    ELSE today + (ProjectionBase - workingDaysPending) * SecondsPerDay

\* the for loop of scheduleApplicationNotifications
RECURSIVE ApplicationLoop(_, _, _)
ApplicationLoop(acc, apps, today) ==
    IF apps = <<>> THEN acc
    ELSE
      LET app == Head(apps)
          workingDaysPending ==
              calculateWorkingDays(DateFromISO(app.dateApplied), today)
      IN  IF workingDaysPending >= OverdueWarnFrom
          THEN LET g == getNextNotificationId(acc.S)
               IN  ApplicationLoop(
                     [ S |-> g.S,
                       schedule |-> Append(acc.schedule,
                          [ applicationId |-> app.id, notificationId |-> g.id ]),
                       notifications |-> Append(acc.notifications,
                          [ id |-> g.id,
                            title |-> "Application Pending Alert",
                            at |-> ApplicationNotificationDate(workingDaysPending, today),
                            type |-> "application_pending",
                            ref |-> app.id,
                            days |-> workingDaysPending ]) ],
                     Tail(apps), today)
          ELSE ApplicationLoop(acc, Tail(apps), today)

scheduleApplicationNotifications(S, apps, today) ==
    IF ~isNativePlatform THEN S
    ELSE
      LET S1 == cancelAllApplicationNotifications(S)
          b  == ApplicationLoop(
                  [S |-> S1, schedule |-> <<>>, notifications |-> <<>>],
                  apps, today)
      IN  IF Len(b.notifications) > 0
          THEN LET S2 == LocalNotificationsSchedule(b.S, b.notifications)
               IN  IF S2.threw THEN Caught(S2)
                   ELSE [S2 EXCEPT !.applicationSchedule = b.schedule]
          ELSE b.S

cancelApplicationNotification(S, applicationId) ==
    IF ~isNativePlatform THEN S
    ELSE
      LET idx == FindApplicationSchedule(S.applicationSchedule, applicationId)
      IN  IF idx > 0
          THEN LET S1 == LocalNotificationsCancel(S,
                            << S.applicationSchedule[idx].notificationId >>)
               IN  IF S1.threw THEN Caught(S1)
                   ELSE [S1 EXCEPT !.applicationSchedule =
                            SelectSeq(S.applicationSchedule,
                                      LAMBDA e : e.applicationId # applicationId)]
          ELSE S

----------------------------------------------------------------------------
(* utils/storage.ts *)

FindRecord(records, id) ==
    IF \E i \in 1..Len(records) : records[i].id = id
    THEN CHOOSE i \in 1..Len(records) :
            /\ records[i].id = id
            /\ \A j \in 1..(i - 1) : records[j].id # id
    ELSE 0

addFirearm(records, id, expiryDate) ==
    Append(records, [id |-> id, expiryDate |-> expiryDate])

updateFirearm(records, id, updates) ==
    LET index == FindRecord(records, id)
    IN  IF index = 0 THEN records ELSE [records EXCEPT ![index] = updates]

deleteFirearm(records, id) == SelectSeq(records, LAMBDA r : r.id # id)

addApplication(records, id, dateApplied) ==
    Append(records, [id |-> id, dateApplied |-> dateApplied])

updateApplication(records, id, updates) ==
    LET index == FindRecord(records, id)
    IN  IF index = 0 THEN records ELSE [records EXCEPT ![index] = updates]

deleteApplication(records, id) == SelectSeq(records, LAMBDA r : r.id # id)

\* settings that count for every record as switched on
NotificationsEnabledAlways(id) == TRUE

\* settings[id] !== false, settings[id] ?? true
NotificationsEnabled(id) ==
    IF id \in DOMAIN settings THEN settings[id] ELSE TRUE

----------------------------------------------------------------------------
(* The handlers of FirearmTracker and NotificationSettings.  Each handler  *)
(* runs to completion; rej is the set of its native calls that the         *)
(* capability rejects.                                                     *)

\* the rejections the capability may produce in one handler run
RejChoices == IF faulty THEN { {}, {1}, {2} } ELSE { {} }

\* the ids the persisted schedules hold for a record
FirearmEntryIds(sched, id) ==
    LET idx == FindFirearmSchedule(sched, id)
    IN  IF idx = 0 THEN <<>> ELSE sched[idx].notificationIds

ApplicationEntryIds(sched, id) ==
    LET idx == FindApplicationSchedule(sched, id)
    IN  IF idx = 0 THEN <<>> ELSE << sched[idx].notificationId >>

\* What a handler leaves in last: its name, the service method it called
\* last, the record and the argument of the call, the ids the record's
\* entry held before, the ids handed out in the run, and whether the
\* handler before it made the same scheduleFirearmNotifications call
\* (with the ids that call handed out).
Ran(op, call, rec, arg, S0, S) ==
    LET again == /\ call = "scheduleFirearmNotifications"
                 /\ last.call = call
                 /\ last.rec = rec
                 /\ last.arg = arg
    IN  [ op |-> op, call |-> call, rec |-> rec, arg |-> arg,
          had |-> IF call \in {"scheduleFirearmNotifications",
                               "cancelFirearmNotifications"}
                  THEN FirearmEntryIds(S0.schedule, rec)
                  ELSE ApplicationEntryIds(S0.applicationSchedule, rec),
          ids |-> SubSeq(S.issued, Len(S0.issued) + 1, Len(S.issued)),
          again |-> again,
          before |-> IF again THEN last.ids ELSE <<>> ]

NoHandler ==
    [ op |-> "none", call |-> "none", rec |-> 0, arg |-> 0, had |-> <<>>,
      ids |-> <<>>, again |-> FALSE, before |-> <<>> ]

\* write a service state back
Commit(S) ==
    /\ steps < MaxSteps
    /\ steps' = steps + 1
    /\ S.notificationCounter <= MaxCounter
    /\ schedule' = S.schedule
    /\ applicationSchedule' = S.applicationSchedule
    /\ pending' = S.pending
    /\ notificationCounter' = S.notificationCounter
    /\ issued' = S.issued
    /\ tasks' = tasks
    /\ fetch' = fetch
    /\ UNCHANGED <<details, list, lookups, server>>

Tick ==
    /\ steps < MaxSteps
    /\ steps' = steps + 1
    /\ \E i \in 1..(Len(NowChoices) - 1) :
          /\ now = NowChoices[i]
          /\ now' = NowChoices[i + 1]
    /\ last' = [NoHandler EXCEPT !.op = "tick"]
    /\ UNCHANGED <<platform, firearms, applications, settings, schedule,
                   applicationSchedule, pending, notificationCounter, issued,
                   nextRecordId, faulty, tasks, fetch, details, list,
                   lookups, server>>

handleFirearmSubmit(expiryDate, rej) ==
    /\ nextRecordId <= MaxRecords
    /\ LET newFirearm == [id |-> nextRecordId, expiryDate |-> expiryDate]
           S0 == Service(rej)
           S  == IF NotificationsEnabled(newFirearm.id)
                 THEN scheduleFirearmNotifications(S0, newFirearm, now)
                 ELSE S0
       IN  /\ firearms' = addFirearm(firearms, nextRecordId, expiryDate)
           /\ nextRecordId' = nextRecordId + 1
           /\ Commit(S)
           /\ last' = Ran("handleFirearmSubmit",
                          IF NotificationsEnabled(newFirearm.id)
                          THEN "scheduleFirearmNotifications" ELSE "none",
                          newFirearm.id, expiryDate, S0, S)
    /\ UNCHANGED <<now, platform, applications, settings, faulty>>

handleFirearmUpdate(id, expiryDate, rej) ==
    /\ FindRecord(firearms, id) > 0
    /\ LET updatedFirearm == [id |-> id, expiryDate |-> expiryDate]
           S0 == Service(rej)
           S  == IF NotificationsEnabled(id)
                 THEN scheduleFirearmNotifications(S0, updatedFirearm, now)
                 ELSE S0
       IN  /\ firearms' = updateFirearm(firearms, id, updatedFirearm)
           /\ Commit(S)
           /\ last' = Ran("handleFirearmUpdate",
                          IF NotificationsEnabled(id)
                          THEN "scheduleFirearmNotifications" ELSE "none",
                          id, expiryDate, S0, S)
    /\ UNCHANGED <<now, platform, applications, settings, nextRecordId, faulty>>

confirmFirearmDelete(id, rej) ==
    /\ FindRecord(firearms, id) > 0
    /\ LET S0 == Service(rej)
           S  == cancelFirearmNotifications(S0, id)
       IN  /\ firearms' = deleteFirearm(firearms, id)
           /\ Commit(S)
           /\ last' = Ran("confirmFirearmDelete", "cancelFirearmNotifications", id, 0, S0, S)
    /\ UNCHANGED <<now, platform, applications, settings, nextRecordId, faulty>>

\* NotificationSettings.handleFirearmToggle, which saves the setting and
\* calls handleFirearmNotificationToggle of FirearmTracker
handleFirearmToggle(id, enabled, rej) ==
    /\ FindRecord(firearms, id) > 0
    /\ LET firearm == firearms[FindRecord(firearms, id)]
           S0 == Service(rej)
           S  == IF enabled
                 THEN scheduleFirearmNotifications(S0, firearm, now)
                 ELSE cancelFirearmNotifications(S0, id)
       IN  /\ settings' = [i \in DOMAIN settings \cup {id} |->
                              IF i = id THEN enabled ELSE settings[i]]
           /\ Commit(S)
           /\ last' = Ran("handleFirearmToggle",
                          IF enabled THEN "scheduleFirearmNotifications"
                                     ELSE "cancelFirearmNotifications",
                          id, IF enabled THEN firearm.expiryDate ELSE 0, S0, S)
    /\ UNCHANGED <<now, platform, firearms, applications, nextRecordId, faulty>>

\* ApplicationForm adds the record, then handleApplicationAdded runs
handleApplicationAdded(dateApplied, rej) ==
    /\ nextRecordId <= MaxRecords
    /\ LET newApplications == addApplication(applications, nextRecordId, dateApplied)
           S0 == Service(rej)
           S  == scheduleApplicationNotifications(S0, newApplications, now)
       IN  /\ applications' = newApplications
           /\ nextRecordId' = nextRecordId + 1
           /\ Commit(S)
           /\ last' = Ran("handleApplicationAdded", "scheduleApplicationNotifications",
                          nextRecordId, dateApplied, S0, S)
    /\ UNCHANGED <<now, platform, firearms, settings, faulty>>

\* the list deletes the record, then handleApplicationDeleted runs
handleApplicationDeleted(id, rej) ==
    /\ FindRecord(applications, id) > 0
    /\ LET updatedApplications == deleteApplication(applications, id)
           S0 == Service(rej)
           S1 == cancelApplicationNotification(S0, id)
           S  == scheduleApplicationNotifications(S1, updatedApplications, now)
       IN  /\ applications' = updatedApplications
           /\ Commit(S)
           /\ last' = Ran("handleApplicationDeleted", "scheduleApplicationNotifications",
                          id, 0, S0, S)
    /\ UNCHANGED <<now, platform, firearms, settings, nextRecordId, faulty>>

\* the edit dialog updates the record, then handleApplicationUpdated runs
handleApplicationUpdated(id, dateApplied, rej) ==
    /\ FindRecord(applications, id) > 0
    /\ LET updatedApplications ==
               updateApplication(applications, id, [id |-> id, dateApplied |-> dateApplied])
           S0 == Service(rej)
           S  == scheduleApplicationNotifications(S0, updatedApplications, now)
       IN  /\ applications' = updatedApplications
           /\ Commit(S)
           /\ last' = Ran("handleApplicationUpdated", "scheduleApplicationNotifications",
                          id, dateApplied, S0, S)
    /\ UNCHANGED <<now, platform, firearms, settings, nextRecordId, faulty>>

\* the 'Test' button of NotificationSettings
testNotification(rej) ==
    /\ LET S0 == Service(rej)
           S  == scheduleTestNotification(S0, now)
       IN  /\ Commit(S)
           /\ last' = Ran("testNotification", "scheduleTestNotification", 0, 0, S0, S)
    /\ UNCHANGED <<now, platform, firearms, applications, settings,
                   nextRecordId, faulty>>

\* the for loop of initializeNotifications over the loaded firearms
RECURSIVE ScheduleEnabled(_, _, _)
ScheduleEnabled(S, records, today) ==
    IF records = <<>> THEN S
    ELSE ScheduleEnabled(
           IF NotificationsEnabled(Head(records).id)
           THEN scheduleFirearmNotifications(S, Head(records), today)
           ELSE S,
           Tail(records), today)

\* NotificationService.initialize(): the platform check and the permission
initialize(granted) == isNativePlatform /\ granted

initializeNotifications(S, loadedFirearms, loadedApplications, granted, today) ==
    IF ~initialize(granted) THEN S
    ELSE scheduleApplicationNotifications(
            ScheduleEnabled(S, loadedFirearms, today),
            loadedApplications, today)

\* The app is started again: a new NotificationService with its counter at
\* the seed, while localStorage and the pending reminders are kept; the
\* mount effect of FirearmTracker then runs initializeNotifications.
appStart(granted, rej) ==
    /\ LET S0 == [Service(rej) EXCEPT !.notificationCounter = CounterSeed,
                                      !.issued = <<>>]
           S  == initializeNotifications(S0, firearms, applications, granted, now)
       IN  /\ Commit(S)
           /\ last' = Ran("appStart",
                          IF initialize(granted)
                          THEN "scheduleApplicationNotifications" ELSE "none",
                          0, granted, S0, S)
    /\ UNCHANGED <<now, platform, firearms, applications, settings,
                   nextRecordId, faulty>>

\* the for loops of handleEnableAll and handleDisableAll: each record is
\* passed to handleFirearmNotificationToggle
RECURSIVE ToggleEach(_, _, _, _)
ToggleEach(S, records, enabled, today) ==
    IF records = <<>> THEN S
    ELSE ToggleEach(
           IF enabled
           THEN scheduleFirearmNotifications(S, Head(records), today)
           ELSE cancelFirearmNotifications(S, Head(records).id),
           Tail(records), enabled, today)

\* NotificationSettings.handleEnableAll and handleDisableAll: every record is
\* toggled in turn, then the settings are saved with all records set
handleToggleAll(enabled, rej) ==
    /\ LET S0 == Service(rej)
           S  == ToggleEach(S0, firearms, enabled, now)
       IN  /\ settings' =
                 [ i \in DOMAIN settings \cup { firearms[k].id : k \in DOMAIN firearms } |->
                     IF \E k \in DOMAIN firearms : firearms[k].id = i
                     THEN enabled ELSE settings[i] ]
           /\ Commit(S)
           /\ last' = Ran(IF enabled THEN "handleEnableAll" ELSE "handleDisableAll",
                          "none", 0, enabled, S0, S)
    /\ UNCHANGED <<now, platform, firearms, applications, nextRecordId, faulty>>

\* the subsequences of a list of records, in the order of the list
RECURSIVE SubLists(_)
SubLists(records) ==
    IF records = <<>> THEN { <<>> }
    ELSE LET rest == SubLists(Tail(records))
         IN  rest \cup { <<Head(records)>> \o r : r \in rest }

\* NotificationService.rescheduleAllFirearms, called with some of the records
rescheduleAll(records, rej) ==
    /\ LET S0 == Service(rej)
           S  == rescheduleAllFirearms(S0, records, now)
       IN  /\ Commit(S)
           /\ last' = Ran("rescheduleAll", "rescheduleAllFirearms", 0,
                          { records[i].id : i \in 1..Len(records) }, S0, S)
    /\ UNCHANGED <<now, platform, firearms, applications, settings,
                   nextRecordId, faulty>>

\* NotificationService.cancelAllNotifications
cancelAll(rej) ==
    /\ LET S0 == Service(rej)
           S  == cancelAllNotifications(S0)
       IN  /\ Commit(S)
           /\ last' = Ran("cancelAll", "cancelAllNotifications", 0, 0, S0, S)
    /\ UNCHANGED <<now, platform, firearms, applications, settings,
                   nextRecordId, faulty>>

\* no status lookup has been started
NoFetch ==
    [ pc |-> "idle", dateApplied |-> 0, proxy |-> 0, inFlight |-> {},
      log |-> <<>>, lastError |-> <<>>, finished |-> 0, result |-> <<>>,
      threw |-> FALSE, query |-> <<>> ]

\* no record has other fields yet
NoDetails == [applications |-> <<>>, firearms |-> <<>>]

\* useState(null) of loadingStatus, currentStatus and statusError
NoList ==
    [loadingStatus |-> <<>>, currentStatus |-> <<>>, statusError |-> <<>>]

\* the ServerStatus component before it is mounted: useState(null) of isOnline
\* and lastChecked, useState('') of checkMethod, no interval timer, no probe
NoServer ==
    [ mounted |-> FALSE, interval |-> <<>>, probes |-> 0, started |-> <<>>,
      isOnline |-> <<>>, checkMethod |-> "", lastChecked |-> <<>> ]

----------------------------------------------------------------------------
(* The program on a device: a fresh install on the native platform *)

InitStores ==
    /\ now = NowChoices[1]
    /\ firearms = <<>>
    /\ applications = <<>>
    /\ settings = <<>>
    /\ schedule = <<>>
    /\ applicationSchedule = <<>>
    /\ pending = {}
    /\ notificationCounter = CounterSeed
    /\ issued = <<>>
    /\ nextRecordId = 1
    /\ steps = 0
    /\ tasks = <<>>
    /\ fetch = NoFetch
    /\ details = NoDetails
    /\ list = NoList
    /\ lookups = <<>>
    /\ server = NoServer
    /\ last = NoHandler

Init ==
    /\ InitStores
    /\ platform = "native"
    /\ faulty = FALSE

FirearmSubmit == \E e \in ExpiryChoices, rej \in RejChoices : handleFirearmSubmit(e, rej)
FirearmUpdate == \E id \in 1..MaxRecords, e \in ExpiryChoices, rej \in RejChoices :
                    handleFirearmUpdate(id, e, rej)
FirearmDelete == \E id \in 1..MaxRecords, rej \in RejChoices : confirmFirearmDelete(id, rej)
FirearmToggle == \E id \in 1..MaxRecords, en \in BOOLEAN, rej \in RejChoices :
                    handleFirearmToggle(id, en, rej)
ApplicationAdded == \E d \in DateAppliedChoices, rej \in RejChoices :
                    handleApplicationAdded(d, rej)
ApplicationDeleted == \E id \in 1..MaxRecords, rej \in RejChoices :
                    handleApplicationDeleted(id, rej)
ApplicationUpdated == \E id \in 1..MaxRecords, d \in DateAppliedChoices, rej \in RejChoices :
                    handleApplicationUpdated(id, d, rej)
TestNotification == \E rej \in RejChoices : testNotification(rej)
AppStart == \E granted \in BOOLEAN, rej \in RejChoices : appStart(granted, rej)
RescheduleAll == \E records \in SubLists(firearms), rej \in RejChoices :
                    rescheduleAll(records, rej)
CancelAll == \E rej \in RejChoices : cancelAll(rej)

Next ==
    \/ Tick
    \/ FirearmSubmit
    \/ FirearmUpdate
    \/ FirearmDelete
    \/ FirearmToggle
    \/ ApplicationAdded
    \/ ApplicationDeleted
    \/ ApplicationUpdated
    \/ TestNotification
    \/ AppStart
    \/ RescheduleAll
    \/ CancelAll

Spec == Init /\ [][Next]_vars

\* The notification settings: the handlers that read or write them.
EnableAll == \E rej \in RejChoices : handleToggleAll(TRUE, rej)
DisableAll == \E rej \in RejChoices : handleToggleAll(FALSE, rej)

NextSettings ==
    \/ Tick
    \/ FirearmSubmit
    \/ FirearmUpdate
    \/ FirearmToggle
    \/ EnableAll
    \/ DisableAll
    \/ AppStart

SpecSettings == Init /\ [][NextSettings]_vars

\* The same program on a device whose notification capability may reject
\* a call: in each handler run at most one native call is rejected.
InitFaulty ==
    /\ InitStores
    /\ platform = "native"
    /\ faulty = TRUE

\* the handlers that run a batch, and those that fill the stores for it
NextFaulty ==
    \/ Tick
    \/ FirearmSubmit
    \/ ApplicationAdded
    \/ AppStart
    \/ RescheduleAll

SpecFaulty == InitFaulty /\ [][NextFaulty]_vars

\* Handlers of one firearm record on such a device: each of them makes one
\* scheduleFirearmNotifications or one cancelFirearmNotifications call.
NextRejected ==
    \/ FirearmSubmit
    \/ FirearmDelete
    \/ FirearmToggle

SpecRejected == InitFaulty /\ [][NextRejected]_vars

\* The same program in a browser: Capacitor.isNativePlatform() is false.
InitWeb ==
    /\ InitStores
    /\ platform = "web"
    /\ faulty = FALSE

SpecWeb == InitWeb /\ [][Next]_vars

----------------------------------------------------------------------------
(* The handlers as asynchronous tasks.  A call of the service runs until   *)
(* it awaits a native call; the call takes effect when it is made, and the *)
(* task is resumed later, after any number of steps of other tasks and     *)
(* handlers.  Only the firearm handlers are taken; no native call is       *)
(* rejected.                                                               *)

\* a call suspended at an await: pc names the await ("initialize", "cancel"
\* or "schedule"), loaded is the schedule read before the await,
\* notificationIds the ids of the reminders handed to the native call, and
\* queue the records the startup loop has still to take
Task(kind, pc, firearm, loaded, notificationIds, queue) ==
    [ kind |-> kind, pc |-> pc, firearm |-> firearm, loaded |-> loaded,
      notificationIds |-> notificationIds, queue |-> queue ]

RECURSIVE RunSchedule(_, _, _, _, _)
RECURSIVE RunBuild(_, _, _, _, _)
RECURSIVE RunQueue(_, _, _, _)

\* scheduleFirearmNotifications(firearm) from its start to its next await
RunSchedule(S, kind, firearm, queue, today) ==
    IF ~isNativePlatform THEN RunQueue(S, kind, queue, today)
    ELSE
      LET c == cancelFirearmNotificationsCall(S, firearm.id)
      IN  IF c.awaiting
          THEN [ S |-> c.S,
                 tasks |-> << Task(kind, "cancel", firearm, c.loaded, <<>>, queue) >> ]
          ELSE RunBuild(c.S, kind, firearm, queue, today)

\* scheduleFirearmNotifications(firearm) from the return of its cancel call
RunBuild(S, kind, firearm, queue, today) ==
    LET c == scheduleFirearmNotificationsCall(S, firearm, today)
    IN  IF c.awaiting
        THEN [ S |-> c.S,
               tasks |-> << Task(kind, "schedule", firearm, <<>>,
                                 c.notificationIds, queue) >> ]
        ELSE RunQueue(c.S, kind, queue, today)

\* the rest of the caller: the loop of initializeNotifications goes on to
\* the next record and ends with scheduleApplicationNotifications (the
\* applications do not change while tasks run)
RunQueue(S, kind, queue, today) ==
    IF queue # <<>>
    THEN RunSchedule(S, kind, Head(queue), Tail(queue), today)
    ELSE [ S |-> IF kind = "startup"
                 THEN scheduleApplicationNotifications(S, applications, today)
                 ELSE S,
           tasks |-> <<>> ]

\* cancelFirearmNotifications(firearmId) from its start to its await
RunCancel(S, firearmId) ==
    IF ~isNativePlatform THEN [S |-> S, tasks |-> <<>>]
    ELSE
      LET c == cancelFirearmNotificationsCall(S, firearmId)
      IN  IF c.awaiting
          THEN [ S |-> c.S,
                 tasks |-> << Task("cancel", "cancel",
                                   [id |-> firearmId, expiryDate |-> 0],
                                   c.loaded, <<>>, <<>>) >> ]
          ELSE [S |-> S, tasks |-> <<>>]

\* a suspended task goes on from its await to its next await or its end
Resume(S, t, granted, today) ==
    CASE t.pc = "initialize" ->
           IF initialize(granted)
           THEN RunQueue(S, "startup",
                         SelectSeq(t.queue, LAMBDA f : NotificationsEnabled(f.id)),
                         today)
           ELSE [S |-> S, tasks |-> <<>>]
      [] t.pc = "cancel" ->
           LET S1 == cancelFirearmNotificationsSave(S, t.firearm.id, t.loaded)
           IN  IF t.kind = "cancel" THEN [S |-> S1, tasks |-> <<>>]
               ELSE RunBuild(S1, t.kind, t.firearm, t.queue, today)
      [] t.pc = "schedule" ->
           RunQueue(scheduleFirearmNotificationsSave(S, t.firearm, t.notificationIds),
                    t.kind, t.queue, today)

\* write back the service state and the suspended tasks
CommitTasks(r, newTasks, op) ==
    /\ r.S.notificationCounter <= MaxCounter
    /\ schedule' = r.S.schedule
    /\ applicationSchedule' = r.S.applicationSchedule
    /\ pending' = r.S.pending
    /\ notificationCounter' = r.S.notificationCounter
    /\ issued' = r.S.issued
    /\ tasks' = newTasks
    /\ fetch' = fetch
    /\ UNCHANGED <<details, list, lookups, server>>
    /\ last' = [NoHandler EXCEPT !.op = op]

\* a handler starts: at most MaxEvents handlers start, and at most MaxTasks
\* calls are suspended at a time
StartTask(r, op) ==
    /\ steps < MaxEvents
    /\ steps' = steps + 1
    /\ Len(tasks \o r.tasks) <= MaxTasks
    /\ CommitTasks(r, tasks \o r.tasks, op)

NoCall == [S |-> Service({}), tasks |-> <<>>]

\* handleFirearmSubmit up to the first await
submitTask(expiryDate) ==
    /\ nextRecordId <= MaxRecords
    /\ LET newFirearm == [id |-> nextRecordId, expiryDate |-> expiryDate]
       IN  /\ firearms' = addFirearm(firearms, nextRecordId, expiryDate)
           /\ nextRecordId' = nextRecordId + 1
           /\ StartTask(IF NotificationsEnabled(newFirearm.id)
                        THEN RunSchedule(Service({}), "schedule", newFirearm, <<>>, now)
                        ELSE NoCall,
                        "handleFirearmSubmit")
    /\ UNCHANGED <<now, platform, applications, settings, faulty>>

\* handleFirearmUpdate, whose rescheduleNotifications() is not awaited
updateTask(id, expiryDate) ==
    /\ FindRecord(firearms, id) > 0
    /\ LET updatedFirearm == [id |-> id, expiryDate |-> expiryDate]
       IN  /\ firearms' = updateFirearm(firearms, id, updatedFirearm)
           /\ StartTask(IF NotificationsEnabled(id)
                        THEN RunSchedule(Service({}), "schedule", updatedFirearm, <<>>, now)
                        ELSE NoCall,
                        "handleFirearmUpdate")
    /\ UNCHANGED <<now, platform, applications, settings, nextRecordId, faulty>>

\* confirmFirearmDelete, whose cancelFirearmNotifications call is not awaited
deleteTask(id) ==
    /\ FindRecord(firearms, id) > 0
    /\ firearms' = deleteFirearm(firearms, id)
    /\ StartTask(RunCancel(Service({}), id), "confirmFirearmDelete")
    /\ UNCHANGED <<now, platform, applications, settings, nextRecordId, faulty>>

\* NotificationSettings.handleFirearmToggle up to the first await
toggleTask(id, enabled) ==
    /\ FindRecord(firearms, id) > 0
    /\ settings' = [i \in DOMAIN settings \cup {id} |->
                       IF i = id THEN enabled ELSE settings[i]]
    /\ StartTask(IF enabled
                 THEN RunSchedule(Service({}), "schedule",
                                  firearms[FindRecord(firearms, id)], <<>>, now)
                 ELSE RunCancel(Service({}), id),
                 "handleFirearmToggle")
    /\ UNCHANGED <<now, platform, firearms, applications, nextRecordId, faulty>>

\* The idle app is started again: the mount effect loads the records and
\* calls initializeNotifications, which awaits initialize().
startTask ==
    /\ tasks = <<>>
    /\ StartTask([ S |-> [Service({}) EXCEPT !.notificationCounter = CounterSeed,
                                             !.issued = <<>>],
                   tasks |-> << Task("startup", "initialize",
                                     [id |-> 0, expiryDate |-> 0],
                                     <<>>, <<>>, firearms) >> ],
                 "appStart")
    /\ UNCHANGED <<now, platform, firearms, applications, settings,
                   nextRecordId, faulty>>

\* the native call the i-th suspended task awaits has returned
resumeTask(i, granted) ==
    /\ LET r == Resume(Service({}), tasks[i], granted, now)
       IN  CommitTasks(r, SubSeq(tasks, 1, i - 1) \o r.tasks
                            \o SubSeq(tasks, i + 1, Len(tasks)),
                       "resume")
    /\ UNCHANGED <<now, platform, firearms, applications, settings,
                   nextRecordId, faulty, steps>>

TaskSubmit == \E e \in ExpiryChoices : submitTask(e)
TaskUpdate == \E id \in 1..MaxRecords, e \in ExpiryChoices : updateTask(id, e)
TaskDelete == \E id \in 1..MaxRecords : deleteTask(id)
TaskToggle == \E id \in 1..MaxRecords, en \in BOOLEAN : toggleTask(id, en)
TaskStart == startTask
TaskResume == \E i \in 1..Len(tasks), granted \in BOOLEAN : resumeTask(i, granted)

NextTasks ==
    \/ TaskSubmit
    \/ TaskUpdate
    \/ TaskDelete
    \/ TaskToggle
    \/ TaskStart
    \/ TaskResume

SpecTasks == Init /\ [][NextTasks]_vars

----------------------------------------------------------------------------
(* utils/statusFetcher.ts                                                  *)
(*                                                                         *)
(* A text is a record: the empty string, a string of white space, or a     *)
(* page.  A page is what DOMParser makes of an HTML text: whether it has a *)
(* table of class 'table', whether it has a form, and the cell texts of    *)
(* the td elements of each tr of the table.  A message is a sequence of    *)
(* the parts it is put together from.                                      *)

CORS_PROXIES == << "allorigins.win", "corsproxy.io", "cors-anywhere", "codetabs" >>

\* the cells a data row needs
RequiredCells == 10

EmptyText == [kind |-> "empty"]
WhiteSpace == [kind |-> "space"]
Html(page) == [kind |-> "html", page |-> page]

\* String.prototype.trim on a text
TrimText(text) == IF text.kind = "space" THEN EmptyText ELSE text

\* String.prototype.trim on the text of a cell
TrimCell(cell) ==
    CASE cell = " Approved " -> "Approved"
      [] cell = "  " -> ""
      [] OTHER -> cell

\* the pages the SAPS site and the proxies deliver
FormPage == [table |-> FALSE, form |-> TRUE, rows |-> <<>>]
UnknownPage == [table |-> FALSE, form |-> FALSE, rows |-> <<>>]
HeaderOnlyPage == [table |-> TRUE, form |-> TRUE, rows |-> << <<>> >>]
ShortRowPage ==
    [ table |-> TRUE, form |-> TRUE,
      rows |-> << <<>>,
                  << "Licence", "A1", "x", "9mm", "Glock", "y", "z",
                     " Approved ", "Card printed" >> >> ]
FullRowPage ==
    [ table |-> TRUE, form |-> FALSE,
      rows |-> << <<>>,
                  << "Licence", "A1", "x", "9mm", "  ", "y", "z",
                     " Approved ", "", "Collect" >>,
                  << "Renewal", "B2", "x", ".22", "CZ", "y", "z",
                     "Pending", "In process", "Wait" >> >> ]
Pages == {FormPage, UnknownPage, HeaderOnlyPage, ShortRowPage, FullRowPage}

\* what fetch() and the reading of the body can come to: a rejection (the
\* 15 s AbortSignal.timeout, a network failure, or on an engine whose
\* DOMException is not an Error a value that is no Error), or a response
Rejection(isError, message) ==
    [kind |-> "reject", isError |-> isError, message |-> message]
HttpResponse(status, statusText, body) ==
    [ kind |-> "response", ok |-> (status >= 200 /\ status <= 299),
      status |-> status, statusText |-> statusText, body |-> body ]
TextBody(text) == [json |-> FALSE, text |-> text]
JsonBody(hasContents, contents) ==
    [json |-> TRUE, hasContents |-> hasContents, contents |-> contents]

Rejections ==
    { Rejection(TRUE, <<"signal timed out">>),
      Rejection(TRUE, <<"The operation was aborted due to timeout">>),
      Rejection(TRUE, <<"NetworkError when attempting to fetch resource.">>),
      Rejection(FALSE, <<"TimeoutError">>) }

\* the answers of a proxy: allorigins wraps the page in JSON, or answers
\* with an error page of its own; the other proxies pass the text on
ResponsesOf(proxy) ==
    Rejections
    \cup { HttpResponse(500, "Internal Server Error", TextBody(EmptyText)) }
    \cup IF proxy = "allorigins.win"
         THEN { HttpResponse(200, "OK", JsonBody(TRUE, Html(page))) : page \in Pages }
              \cup { HttpResponse(200, "OK", JsonBody(TRUE, EmptyText)),
                     HttpResponse(200, "OK", JsonBody(TRUE, WhiteSpace)),
                     HttpResponse(200, "OK", JsonBody(FALSE, EmptyText)),
                     HttpResponse(200, "OK", TextBody(Html(UnknownPage))) }
         ELSE { HttpResponse(200, "OK", TextBody(Html(page))) : page \in Pages }
              \cup { HttpResponse(200, "OK", TextBody(EmptyText)),
                     HttpResponse(200, "OK", TextBody(WhiteSpace)) }

\* String.prototype.includes on a part of a message, for the three words
\* the catch block of fetchFirearmStatus looks for
PartIncludes(part, word) ==
    <<part, word>> \in
        { <<"The operation was aborted due to timeout", "timeout">>,
          <<"NetworkError when attempting to fetch resource.", "Network">>,
          <<"Unknown proxy error", "proxy">> }

Includes(message, word) ==
    \E i \in 1..Len(message) : PartIncludes(message[i], word)

Thrown(message) == [ok |-> FALSE, isError |-> TRUE, message |-> message]
Returned(html) == [ok |-> TRUE, html |-> html]

\* a processor that hands the body text on whatever the proxy is
responseProcessorPlain(proxy, body) ==
    IF body.json
    THEN Returned(Html(UnknownPage))
    ELSE Returned(body.text)

\* responseProcessor: response.json() and data.contents for allorigins
\* (undefined, like the empty string, fails the check that follows),
\* response.text() for the other proxies
responseProcessor(proxy, body) ==
    IF proxy = "allorigins.win"
    THEN IF ~body.json
         THEN Thrown(<<"Unexpected token < in JSON at position 0">>)
         ELSE IF body.hasContents THEN Returned(body.contents)
         ELSE Returned(EmptyText)
    ELSE IF body.json
         THEN Returned(Html(UnknownPage))
         ELSE Returned(body.text)

\* a body check that lets a text of white space through
EmptyCheckNoTrim(processed) ==
    IF ~processed.ok THEN processed
    ELSE IF processed.html = EmptyText
    THEN Thrown(<<"Empty response received">>)
    ELSE Returned(processed.html)

\* if (!html || html.trim().length === 0) throw
EmptyCheck(processed) ==
    IF ~processed.ok THEN processed
    ELSE IF processed.html = EmptyText \/ TrimText(processed.html) = EmptyText
    THEN Thrown(<<"Empty response received">>)
    ELSE Returned(processed.html)

\* the try block of the loop of fetchWithProxy for one proxy
ProxyAttempt(proxy, response) ==
    IF response.kind = "reject"
    THEN [ok |-> FALSE, isError |-> response.isError, message |-> response.message]
    ELSE IF ~response.ok
    THEN Thrown(<<"HTTP ", ToString(response.status), ": ", response.statusText>>)
    ELSE EmptyCheck(responseProcessor(proxy, response.body))

\* a catch block that keeps the error of the first proxy that failed
CaughtErrorFirst(lastError, outcome) ==
    IF lastError # <<>> THEN lastError
    ELSE IF outcome.isError THEN <<outcome.message>>
    ELSE << <<"Unknown proxy error">> >>

\* the catch block of the loop: lastError = error instanceof Error ? ...
CaughtError(lastError, outcome) ==
    IF outcome.isError THEN <<outcome.message>>
    ELSE << <<"Unknown proxy error">> >>

\* the throw after the loop, with `${lastError?.message}`
AllFailed(lastError) ==
    <<"All CORS proxies failed. Last error: ">>
       \o (IF lastError = <<>> THEN <<"undefined">> ELSE lastError[1])

\* the results of fetchFirearmStatus
Failure(error) == [success |-> FALSE, status |-> <<>>, error |-> <<error>>]
Success(status) == [success |-> TRUE, status |-> <<status>>, error |-> <<>>]

NoResultsFound ==
    <<"No results found. Please verify your reference numbers are correct.">>
NoResultsTable ==
    <<"No results table found on SAPS website. The page format may have changed.">>
NoDataRows ==
    <<"No data rows found in results table. No matching applications found.">>

\* cell || fallback
OrElse(cell, fallback) == IF cell = "" THEN fallback ELSE cell

\* a mapping that reads the calibre one cell too early
StatusOfCellsShifted(cellValues, dateApplied, today) ==
    [ type |-> OrElse(cellValues[1], "Unknown"),
      number |-> OrElse(cellValues[2], "Unknown"),
      calibre |-> OrElse(cellValues[3], "Unknown"),
      make |-> OrElse(cellValues[5], "Unknown"),
      status |-> OrElse(cellValues[8], "Unknown"),
      description |-> OrElse(cellValues[9], "No description available"),
      nextStep |-> OrElse(cellValues[10], "No next step information"),
      workingDaysPending |-> calculateWorkingDays(DateFromISO(dateApplied), today),
      isOverdue |-> calculateWorkingDays(DateFromISO(dateApplied), today) > 90 ]

\* the status record mapped from the cell values
StatusOfCells(cellValues, dateApplied, today) ==
    [ type |-> OrElse(cellValues[1], "Unknown"),
      number |-> OrElse(cellValues[2], "Unknown"),
      calibre |-> OrElse(cellValues[4], "Unknown"),
      make |-> OrElse(cellValues[5], "Unknown"),
      status |-> OrElse(cellValues[8], "Unknown"),
      description |-> OrElse(cellValues[9], "No description available"),
      nextStep |-> OrElse(cellValues[10], "No next step information"),
      workingDaysPending |-> calculateWorkingDays(DateFromISO(dateApplied), today),
      isOverdue |-> calculateWorkingDays(DateFromISO(dateApplied), today) > 90 ]

\* the first data row of the table
StatusOfRows(rows, dateApplied, today) ==
    IF Len(rows) <= 1 THEN Failure(NoDataRows)
    ELSE IF Len(rows[2]) < RequiredCells
    THEN Failure(<<"Insufficient data columns found (", ToString(Len(rows[2])),
                   "/10). Make sure your information is correct.">>)
    ELSE Success(StatusOfCells([i \in 1..Len(rows[2]) |-> TrimCell(rows[2][i])],
                               dateApplied, today))

\* DOMParser.parseFromString(html, 'text/html'): a text without markup
\* gives a document with neither table nor form
ParseFromString(html) ==
    IF html.kind = "html" THEN html.page ELSE UnknownPage

\* a parse that takes every page without a table for a changed site
ParseStatusNoForm(html, dateApplied, today) ==
    IF ~ParseFromString(html).table
    THEN Failure(NoResultsTable)
    ELSE StatusOfRows(ParseFromString(html).rows, dateApplied, today)

\* fetchFirearmStatus after fetchWithProxy has returned the html
ParseStatus(html, dateApplied, today) ==
    IF ~ParseFromString(html).table
    THEN IF ParseFromString(html).form THEN Failure(NoResultsFound)
         ELSE Failure(NoResultsTable)
    ELSE StatusOfRows(ParseFromString(html).rows, dateApplied, today)

\* a catch block that throws the error on to the caller
StatusCatchRethrow(message) ==
    [success |-> FALSE, status |-> <<>>, error |-> <<>>]

\* the catch block of fetchFirearmStatus
StatusCatch(message) ==
    IF Includes(message, "timeout")
    THEN Failure(<<"Request timeout: SAPS website is taking too long to respond. Please try again.">>)
    ELSE IF Includes(message, "Network")
    THEN Failure(<<"Network error: Please check your internet connection and try again.">>)
    ELSE IF Includes(message, "proxy")
    THEN Failure(<<"Connection error: Unable to access SAPS website. Please try again later.">>)
    ELSE Failure(message)

\* the warning of the application list: workingDays > 90 at render time
OverdueWarning(dateApplied, today) ==
    calculateWorkingDays(DateFromISO(dateApplied), today) > 90

\* fetchWithProxy as a function of the answers the proxies give, from
\* proxy i on
RECURSIVE ProxyLoop(_, _, _, _)
ProxyLoop(proxies, responses, i, lastError) ==
    IF i > Len(proxies)
    THEN [ok |-> FALSE, message |-> AllFailed(lastError), attempts |-> i - 1]
    ELSE IF ProxyAttempt(proxies[i], responses[i]).ok
    THEN [ok |-> TRUE, html |-> ProxyAttempt(proxies[i], responses[i]).html,
          attempts |-> i]
    ELSE ProxyLoop(proxies, responses, i + 1,
                   CaughtError(lastError, ProxyAttempt(proxies[i], responses[i])))

fetchWithProxy(proxies, responses) == ProxyLoop(proxies, responses, 1, <<>>)

\* fetchFirearmStatus as a function of the answers and of the clock
FetchSettle(fetched, dateApplied, today) ==
    IF fetched.ok THEN ParseStatus(fetched.html, dateApplied, today)
    ELSE StatusCatch(fetched.message)

fetchFirearmStatus(proxies, responses, dateApplied, today) ==
    FetchSettle(fetchWithProxy(proxies, responses), dateApplied, today)

\* fetchFirearmStatus is called: the query is built and the request to the
\* first proxy is sent
fetchStart(dateApplied) ==
    /\ fetch.pc \in {"idle", "done"}
    /\ fetch' = [NoFetch EXCEPT !.pc = "fetching", !.dateApplied = dateApplied,
                                !.proxy = 1, !.inFlight = {1}]

\* what an attempt that ended leaves: a success is parsed, a failure sends
\* the request to the next proxy or, after the last proxy, is caught
AttemptSettled(f, logged, outcome, today) ==
    IF outcome.ok
    THEN [f EXCEPT !.pc = "done", !.inFlight = {}, !.log = logged,
                   !.finished = today,
                   !.result = <<ParseStatus(outcome.html, f.dateApplied, today)>>]
    ELSE IF f.proxy < Len(CORS_PROXIES)
    THEN [f EXCEPT !.proxy = f.proxy + 1, !.inFlight = {f.proxy + 1},
                   !.log = logged,
                   !.lastError = CaughtError(f.lastError, outcome)]
    ELSE [f EXCEPT !.pc = "done", !.inFlight = {}, !.log = logged,
                   !.finished = today,
                   !.lastError = CaughtError(f.lastError, outcome),
                   !.result = <<StatusCatch(
                        AllFailed(CaughtError(f.lastError, outcome)))>>]

\* the request to the current proxy ends with the answer response
proxyResponds(response) ==
    /\ fetch.pc = "fetching"
    /\ fetch' = AttemptSettled(
                  fetch,
                  Append(fetch.log,
                         [ proxy |-> CORS_PROXIES[fetch.proxy],
                           response |-> response,
                           outcome |-> ProxyAttempt(CORS_PROXIES[fetch.proxy], response) ]),
                  ProxyAttempt(CORS_PROXIES[fetch.proxy], response),
                  now)

FetchFrame ==
    UNCHANGED <<now, platform, firearms, applications, settings, schedule,
                applicationSchedule, pending, notificationCounter, issued,
                nextRecordId, faulty, steps, tasks, details, list,
                lookups, server, last>>

FetchStart == \E d \in LookupDateChoices : fetchStart(d) /\ FetchFrame
ProxyResponds ==
    /\ fetch.pc = "fetching"
    /\ \E response \in ResponsesOf(CORS_PROXIES[fetch.proxy]) :
          proxyResponds(response) /\ FetchFrame

NextFetch ==
    \/ Tick
    \/ FetchStart
    \/ ProxyResponds

SpecFetch == Init /\ [][NextFetch]_vars

\* every request carries AbortSignal.timeout(15000), so each attempt ends
SpecFetchLive == SpecFetch /\ WF_vars(ProxyResponds)

----------------------------------------------------------------------------
(* components/ApplicationForm.tsx, EditApplicationDialog.tsx and           *)
(* ApplicationList.tsx                                                     *)
(*                                                                         *)
(* The text of a form field is a sequence of characters or runs of         *)
(* characters; " " is white space.  The fields of a stored application     *)
(* other than its id and dateApplied are kept in details.applications.     *)

Space == " "

\* String.prototype.trim
RECURSIVE trimStart(_)
trimStart(text) ==
    IF text # <<>> /\ Head(text) = Space THEN trimStart(Tail(text)) ELSE text

RECURSIVE trimEnd(_)
trimEnd(text) ==
    IF text # <<>> /\ text[Len(text)] = Space
    THEN trimEnd(SubSeq(text, 1, Len(text) - 1))
    ELSE text

trim(text) == trimEnd(trimStart(text))

DigitValue ==
    "0" :> 0 @@ "1" :> 1 @@ "2" :> 2 @@ "3" :> 3 @@ "4" :> 4 @@
    "5" :> 5 @@ "6" :> 6 @@ "7" :> 7 @@ "8" :> 8 @@ "9" :> 9

\* the Luhn sum over the first twelve digits, digits[i] being digit i - 1
RECURSIVE LuhnSum(_, _)
LuhnSum(digits, i) ==
    IF i > 12 THEN 0
    ELSE LuhnSum(digits, i + 1)
         + IF (i - 1) % 2 = 0 THEN digits[i]
           ELSE IF digits[i] * 2 > 9 THEN digits[i] * 2 - 9 ELSE digits[i] * 2

isValidSouthAfricanID(id) ==
    /\ Len(id) = 13
    /\ \A i \in 1..13 : id[i] \in DOMAIN DigitValue
    /\ LET digits == [i \in 1..13 |-> DigitValue[id[i]]]
           month == digits[3] * 10 + digits[4]
           day == digits[5] * 10 + digits[6]
           checkDigit == (10 - (LuhnSum(digits, 1) % 10)) % 10
       IN  /\ ~(month < 1 \/ month > 12 \/ day < 1 \/ day > 31)
           /\ checkDigit = digits[13]

\* what the user types into the forms
ValidId == <<"8", "0", "0", "1", "0", "1", "5", "0", "0", "9", "0", "8", "7">>
ShortId == <<"1", "2", "3">>

FormData(searchMethod, applicationRefNumber, idNumber, serialNumber, gunReference, dateApplied) ==
    [ searchMethod |-> searchMethod,
      applicationRefNumber |-> applicationRefNumber,
      idNumber |-> idNumber,
      serialNumber |-> serialNumber,
      gunReference |-> gunReference,
      dateApplied |-> dateApplied ]

FormDate == DaysFromCivil(2024, 5, 16)

FormChoices ==
    { FormData("REF_ID", <<Space, "REF1", Space>>, ValidId, <<>>, <<>>, FormDate),
      FormData("REF_ID", <<Space>>, ValidId, <<>>, <<>>, FormDate),
      FormData("REF_ID", <<"REF1">>, <<>>, <<"SN1">>, <<>>, FormDate),
      FormData("REF_ID", <<"REF1">>, ShortId, <<>>, <<>>, FormDate),
      FormData("SERIAL_REF", <<>>, <<>>, <<Space, "SN1">>, <<"GR1">>, FormDate),
      FormData("SERIAL_REF", <<"REF1">>, ValidId, <<"SN1">>, <<"GR1", Space>>, FormDate),
      FormData("SERIAL_REF", <<>>, <<>>, <<"SN1">>, <<>>, FormDate),
      FormData("SERIAL_REF", <<>>, <<>>, <<Space, Space>>, <<"GR1">>, FormDate),
      FormData("ID_SERIAL", <<>>, ValidId, <<"SN1">>, <<"GR1">>, FormDate),
      FormData("ID_SERIAL", <<>>, ValidId, <<Space>>, <<>>, FormDate),
      FormData("ID_SERIAL", <<>>, <<>>, <<"SN1">>, <<>>, FormDate),
      FormData("REF_ID", <<"REF2">>, ValidId, <<>>, <<>>, BaseDay + 10) }

EditChoices ==
    { [applicationRefNumber |-> ref, idNumber |-> id]
        : ref \in {<<>>, <<"REF2", Space>>}, id \in {<<>>, ValidId, ShortId} }

\* isDuplicateApplication of ApplicationForm
isDuplicateApplication(formData, existingApps) ==
    \E i \in 1..Len(existingApps) :
        LET app == existingApps[i]
        IN  IF formData.searchMethod = "REF_ID"
            THEN /\ app.applicationRefNumber = formData.applicationRefNumber
                 /\ app.idNumber = formData.idNumber
            ELSE IF formData.searchMethod = "SERIAL_REF"
            THEN /\ app.serialNumber = formData.serialNumber
                 /\ app.gunReference = formData.gunReference
            ELSE IF formData.searchMethod = "ID_SERIAL"
            THEN /\ app.idNumber = formData.idNumber
                 /\ app.serialNumber = formData.serialNumber
            ELSE FALSE

\* today.setHours(23, 59, 59, 999); appliedDate > today
DateInFuture(dateApplied, today) ==
    DateFromISO(dateApplied) >= (LocalDay(today) + 1) * SecondsPerDay - sastOffset

\* the fields the search method of the form requires
RequiredFields(formData) ==
    CASE formData.searchMethod = "REF_ID" ->
           /\ trim(formData.applicationRefNumber) # <<>>
           /\ trim(formData.idNumber) # <<>>
      [] formData.searchMethod = "SERIAL_REF" ->
           /\ trim(formData.serialNumber) # <<>>
           /\ trim(formData.gunReference) # <<>>
      [] formData.searchMethod = "ID_SERIAL" ->
           /\ trim(formData.idNumber) # <<>>
           /\ trim(formData.serialNumber) # <<>>
      [] OTHER -> TRUE

\* validateForm of ApplicationForm
validateForm(formData, existingApps, today) ==
    /\ ~isDuplicateApplication(formData, existingApps)
    /\ ~(formData.idNumber # <<>> /\ ~isValidSouthAfricanID(formData.idNumber))
    /\ RequiredFields(formData)
    /\ ~DateInFuture(formData.dateApplied, today)

\* validateForm of EditApplicationDialog
validateEdit(formData, today) ==
    /\ ~(formData.idNumber # <<>> /\ ~isValidSouthAfricanID(formData.idNumber))
    /\ trim(formData.applicationRefNumber) # <<>>
    /\ trim(formData.idNumber) # <<>>
    /\ ~DateInFuture(formData.dateApplied, today)

\* the hour and the minute of the SAST wall clock
SASTHours(t) == ((t + sastOffset) % SecondsPerDay) \div 3600
SASTMinutes(t) == ((t + sastOffset) % 3600) \div 60

\* a window that also takes 00:30
isSASTPlannedDowntimeThrough(t) ==
    SASTHours(t) = 0 /\ SASTMinutes(t) >= 0 /\ SASTMinutes(t) <= 30

isSASTPlannedDowntime(t) ==
    SASTHours(t) = 0 /\ SASTMinutes(t) >= 0 /\ SASTMinutes(t) < 30

PlannedDowntime == <<"Planned server downtime. Try again after 01:00 SAST.">>

\* the switch on the search method, which leaves out the other fields
SearchParamsAll(application) ==
    [ fref |-> application.applicationRefNumber,
      frid |-> application.idNumber,
      fserial |-> application.serialNumber,
      fsref |-> application.gunReference ]

\* the params object of handleCheckStatus; a field that is undefined is <<>>
SearchParams(application) ==
    LET searchMethod == IF application.searchMethod = ""
                        THEN "REF_ID" ELSE application.searchMethod
    IN  CASE searchMethod = "REF_ID" ->
               [ fref |-> application.applicationRefNumber,
                 frid |-> application.idNumber ]
          [] searchMethod = "SERIAL_REF" ->
               [ fserial |-> application.serialNumber,
                 fsref |-> application.gunReference ]
          [] searchMethod = "ID_SERIAL" ->
               [ fid |-> application.idNumber,
                 fiserial |-> application.serialNumber ]
          [] OTHER -> <<>>

\* the URLSearchParams of fetchFirearmStatus: a parameter is set to its
\* trimmed value when that is not empty
URLSearchParams(params) ==
    [ key \in { k \in DOMAIN params : trim(params[k]) # <<>> } |-> trim(params[key]) ]

\* the proxies answer a lookup from the list with a time-out or with the
\* results page
ListResponses(proxy) ==
    { r \in ResponsesOf(proxy) :
        IF r.kind = "reject" THEN r.message = <<"signal timed out">>
        ELSE /\ r.ok
             /\ r.body \in { TextBody(Html(FullRowPage)),
                             JsonBody(TRUE, Html(FullRowPage)) } }

ApplicationDetails(id) ==
    details.applications[FindRecord(details.applications, id)]

\* the notification state a handler of the page leaves
ListCommit(S) ==
    /\ steps < MaxEvents
    /\ steps' = steps + 1
    /\ S.notificationCounter <= MaxCounter
    /\ schedule' = S.schedule
    /\ applicationSchedule' = S.applicationSchedule
    /\ pending' = S.pending
    /\ notificationCounter' = S.notificationCounter
    /\ issued' = S.issued
    /\ UNCHANGED <<now, platform, firearms, settings, faulty, tasks, fetch, list,
                   lookups, server>>

\* handleSubmit of ApplicationForm: validateForm, addApplication, and
\* onApplicationAdded, which is handleApplicationAdded
applicationFormSubmit(formData) ==
    /\ validateForm(formData, details.applications, now)
    /\ nextRecordId <= MaxRecords
    /\ LET newApplications ==
               addApplication(applications, nextRecordId, formData.dateApplied)
           S0 == Service({})
           S  == scheduleApplicationNotifications(S0, newApplications, now)
       IN  /\ applications' = newApplications
           /\ nextRecordId' = nextRecordId + 1
           /\ ListCommit(S)
           /\ last' = Ran("handleApplicationAdded", "scheduleApplicationNotifications",
                          nextRecordId, formData.dateApplied, S0, S)
    /\ details' = [details EXCEPT !.applications =
                     Append(@, [ id |-> nextRecordId,
                                 searchMethod |-> formData.searchMethod,
                                 applicationRefNumber |-> formData.applicationRefNumber,
                                 idNumber |-> formData.idNumber,
                                 serialNumber |-> formData.serialNumber,
                                 gunReference |-> formData.gunReference ])]

\* handleSubmit of EditApplicationDialog: validateForm, updateApplication
\* with the four fields of the dialog, and onApplicationUpdated
editApplicationSubmit(id, formData) ==
    /\ FindRecord(applications, id) > 0
    /\ validateEdit(formData, now)
    /\ LET updatedApplications ==
               updateApplication(applications, id,
                                 [id |-> id, dateApplied |-> formData.dateApplied])
           S0 == Service({})
           S  == scheduleApplicationNotifications(S0, updatedApplications, now)
       IN  /\ applications' = updatedApplications
           /\ ListCommit(S)
           /\ last' = Ran("handleApplicationUpdated", "scheduleApplicationNotifications",
                          id, formData.dateApplied, S0, S)
    /\ details' = [details EXCEPT !.applications =
                     [ i \in 1..Len(@) |->
                         IF @[i].id = id
                         THEN [@[i] EXCEPT
                                 !.applicationRefNumber = formData.applicationRefNumber,
                                 !.idNumber = formData.idNumber]
                         ELSE @[i] ]]
    /\ nextRecordId' = nextRecordId

ListFrame ==
    UNCHANGED <<platform, firearms, applications, settings, schedule,
                applicationSchedule, pending, notificationCounter, issued,
                nextRecordId, faulty, steps, tasks, details,
                lookups, server>>

\* handleCheckStatus up to the await: during the planned downtime it only
\* sets the error; otherwise it builds the params and fetchFirearmStatus
\* builds the query and sends the request to the first proxy
handleCheckStatus(id) ==
    /\ FindRecord(applications, id) > 0
    /\ list.loadingStatus # <<id>>
    /\ IF isSASTPlannedDowntime(now)
       THEN /\ list' = [list EXCEPT !.statusError = <<PlannedDowntime>>]
            /\ fetch' = fetch
       ELSE /\ fetch.pc \in {"idle", "done"}
            /\ list' = [ loadingStatus |-> <<id>>, currentStatus |-> <<>>,
                         statusError |-> <<>> ]
            /\ fetch' = [NoFetch EXCEPT
                           !.pc = "fetching",
                           !.dateApplied =
                              applications[FindRecord(applications, id)].dateApplied,
                           !.proxy = 1, !.inFlight = {1},
                           !.query = URLSearchParams(SearchParams(ApplicationDetails(id)))]
    /\ last' = [NoHandler EXCEPT !.op = "handleCheckStatus", !.rec = id]
    /\ now' = now
    /\ ListFrame

\* handleCheckStatus after the await
StatusShown(result) ==
    IF result.success /\ result.status # <<>>
    THEN [ loadingStatus |-> <<>>, currentStatus |-> result.status,
           statusError |-> <<>> ]
    ELSE [ loadingStatus |-> <<>>, currentStatus |-> <<>>,
           statusError |-> IF result.error # <<>> THEN result.error
                           ELSE << <<"Failed to fetch status">> >> ]

\* a proxy answers the lookup of the list
lookupResponds(response) ==
    /\ list.loadingStatus # <<>>
    /\ proxyResponds(response)
    /\ list' = IF fetch'.pc = "done" THEN StatusShown(fetch'.result[1])
               ELSE list
    /\ last' = [NoHandler EXCEPT !.op = "proxyResponds"]
    /\ now' = now
    /\ ListFrame

\* the night passes
clockMoves ==
    /\ \E i \in 1..(Len(ListNowChoices) - 1) :
          /\ now = ListNowChoices[i]
          /\ now' = ListNowChoices[i + 1]
    /\ last' = [NoHandler EXCEPT !.op = "tick"]
    /\ UNCHANGED <<list, fetch>>
    /\ ListFrame

InitList ==
    /\ now = ListNowChoices[1]
    /\ firearms = <<>>
    /\ applications = <<>>
    /\ settings = <<>>
    /\ schedule = <<>>
    /\ applicationSchedule = <<>>
    /\ pending = {}
    /\ notificationCounter = CounterSeed
    /\ issued = <<>>
    /\ nextRecordId = 1
    /\ steps = 0
    /\ tasks = <<>>
    /\ fetch = NoFetch
    /\ details = NoDetails
    /\ list = NoList
    /\ lookups = <<>>
    /\ server = NoServer
    /\ last = NoHandler
    /\ platform = "native"
    /\ faulty = FALSE

ApplicationFormSubmit == \E formData \in FormChoices : applicationFormSubmit(formData)
EditApplicationSubmit ==
    \E id \in 1..MaxRecords, formData \in EditChoices :
        /\ FindRecord(applications, id) > 0
        /\ editApplicationSubmit(
             id, formData @@ [dateApplied |->
                     applications[FindRecord(applications, id)].dateApplied])
CheckStatus == \E id \in 1..MaxRecords : handleCheckStatus(id)
LookupResponds ==
    /\ fetch.pc = "fetching"
    /\ \E response \in ListResponses(CORS_PROXIES[fetch.proxy]) :
          lookupResponds(response)
ClockMoves == clockMoves

NextList ==
    \/ ClockMoves
    \/ ApplicationFormSubmit
    \/ EditApplicationSubmit
    \/ CheckStatus
    \/ LookupResponds

SpecList == InitList /\ [][NextList]_vars

----------------------------------------------------------------------------
(* Several calls of handleCheckStatus at a time.  A call is suspended at   *)
(* `await fetchFirearmStatus(...)`; lookups holds the suspended calls, and *)
(* the lookup of a call settles in one step with the answers the proxies   *)
(* give it.  The component has one loadingStatus for all its rows.         *)

\* the answers of the proxies to one lookup: the first proxy answers or
\* times out, the others time out
LookupAnswers ==
    { responses \in [ 1..Len(CORS_PROXIES) ->
                        UNION { ListResponses(p) : p \in Range(CORS_PROXIES) } ] :
        \A i \in 1..Len(CORS_PROXIES) :
            /\ responses[i] \in ListResponses(CORS_PROXIES[i])
            /\ i > 1 => responses[i].kind = "reject" }

\* disabled={loadingStatus === application.id} of the row's button
CheckStatusDisabled(id) == list.loadingStatus = <<id>>

LookupsFrame ==
    UNCHANGED <<now, fetch, platform, firearms, applications, settings,
                schedule, applicationSchedule, pending, notificationCounter,
                issued, nextRecordId, faulty, steps, tasks, details, server>>

\* handleCheckStatus from the click to the await
checkStatusCall(id) ==
    /\ FindRecord(applications, id) > 0
    /\ ~CheckStatusDisabled(id)
    /\ IF isSASTPlannedDowntime(now)
       THEN /\ list' = [list EXCEPT !.statusError = <<PlannedDowntime>>]
            /\ lookups' = lookups
       ELSE /\ Len(lookups) < MaxLookups
            /\ list' = [ loadingStatus |-> <<id>>, currentStatus |-> <<>>,
                         statusError |-> <<>> ]
            /\ lookups' =
                 Append(lookups,
                        [ id |-> id,
                          dateApplied |->
                             applications[FindRecord(applications, id)].dateApplied,
                          query |-> URLSearchParams(SearchParams(ApplicationDetails(id))) ])
    /\ last' = [NoHandler EXCEPT !.op = "handleCheckStatus", !.rec = id]
    /\ LookupsFrame

\* handleCheckStatus from the await on: the lookup of call i has settled
checkStatusSettle(i, responses) ==
    /\ i \in DOMAIN lookups
    /\ list' = StatusShown(fetchFirearmStatus(CORS_PROXIES, responses,
                                              lookups[i].dateApplied, now))
    /\ lookups' = [ k \in 1..(Len(lookups) - 1) |->
                      IF k < i THEN lookups[k] ELSE lookups[k + 1] ]
    /\ last' = [NoHandler EXCEPT !.op = "handleCheckStatusSettled",
                                 !.rec = lookups[i].id]
    /\ LookupsFrame

\* the clock of the page with calls suspended
lookupsClockMoves ==
    /\ \E i \in 1..(Len(ListNowChoices) - 1) :
          /\ now = ListNowChoices[i]
          /\ now' = ListNowChoices[i + 1]
    /\ last' = [NoHandler EXCEPT !.op = "tick"]
    /\ UNCHANGED <<list, lookups, fetch, platform, firearms, applications,
                   settings, schedule, applicationSchedule, pending,
                   notificationCounter, issued, nextRecordId, faulty, steps,
                   tasks, details, server>>

CheckStatusCall == \E id \in 1..MaxRecords : checkStatusCall(id)
CheckStatusSettle ==
    \E i \in 1..MaxLookups, responses \in LookupAnswers :
        checkStatusSettle(i, responses)
LookupsClockMoves == lookupsClockMoves
LookupsFormSubmit == \E formData \in FormChoices : applicationFormSubmit(formData)

NextLookups ==
    \/ LookupsClockMoves
    \/ LookupsFormSubmit
    \/ CheckStatusCall
    \/ CheckStatusSettle

SpecLookups == InitList /\ [][NextLookups]_vars

----------------------------------------------------------------------------
(* utils/holidays.ts applied to dates.  A date is given as the civil date  *)
(* <<year, month, day>> and the seconds after local midnight; last keeps   *)
(* the function applied, its arguments and its result.                     *)

\* the days from 2024-03-15 to 2024-04-03: Human Rights Day (Thursday
\* 2024-03-21), Good Friday, Easter Sunday, Family Day and three weekends
CountDates ==
    { <<2024, 3, d>> : d \in 15..31 } \cup { <<2024, 4, d>> : d \in 1..3 }

\* the fixed holidays of 2024, fixed holidays that fall on a weekend and
\* the Monday after them, and the Easter holidays of other years
CalendarDates ==
    CountDates
    \cup { <<2024, 1, 1>>, <<2024, 4, 27>>, <<2024, 5, 1>>, <<2024, 6, 16>>,
           <<2024, 6, 17>>, <<2024, 8, 9>>, <<2024, 9, 24>>, <<2024, 12, 16>>,
           <<2024, 12, 25>>, <<2024, 12, 26>>, <<2024, 12, 27>>,
           <<2023, 1, 1>>, <<2023, 1, 2>>, <<2021, 12, 25>>, <<2021, 12, 26>>,
           <<2021, 12, 27>>, <<2023, 3, 29>>, <<2023, 4, 7>>, <<2023, 4, 10>>,
           <<2025, 4, 1>>, <<2025, 4, 18>>, <<2025, 4, 21>>, <<2027, 3, 26>>,
           <<2027, 3, 29>>, <<2029, 3, 30>>, <<2029, 4, 2>>, <<2020, 2, 29>> }

\* local midnight (new Date(y, m, d)), 01:00 (a clock reading) and 02:00
\* SAST (new Date('YYYY-MM-DD'))
TimesOfDay == {0, 60 * 60, 2 * 60 * 60}

EasterYears == 2020..2030

DateAt(civil, timeOfDay) ==
    DaysFromCivil(civil[1], civil[2], civil[3]) * SecondsPerDay
      - sastOffset + timeOfDay

\* a function of holidays.ts with its arguments; result is <<>> until the
\* function has been applied, then it holds the value returned
Applied(op, civil, timeOfDay, endCivil, endTimeOfDay, result) ==
    [ op |-> op, civil |-> civil, timeOfDay |-> timeOfDay,
      endCivil |-> endCivil, endTimeOfDay |-> endTimeOfDay, result |-> result ]

CalendarInputs ==
    { Applied(op, civil, timeOfDay, <<>>, 0, <<>>) :
        op \in {"isPublicHoliday", "isWorkingDay"},
        civil \in CalendarDates, timeOfDay \in TimesOfDay }
    \cup { Applied("calculateWorkingDays", civil, timeOfDay,
                   endCivil, endTimeOfDay, <<>>) :
             civil \in CountDates, timeOfDay \in TimesOfDay,
             endCivil \in CountDates, endTimeOfDay \in TimesOfDay }
    \cup { Applied("getEasterDate", <<year, 0, 0>>, 0, <<>>, 0, <<>>) :
             year \in EasterYears }

InitCalendar ==
    /\ now = NowChoices[1]
    /\ firearms = <<>>
    /\ applications = <<>>
    /\ settings = <<>>
    /\ schedule = <<>>
    /\ applicationSchedule = <<>>
    /\ pending = {}
    /\ notificationCounter = CounterSeed
    /\ issued = <<>>
    /\ nextRecordId = 1
    /\ steps = 0
    /\ tasks = <<>>
    /\ fetch = NoFetch
    /\ details = NoDetails
    /\ list = NoList
    /\ lookups = <<>>
    /\ server = NoServer
    /\ platform = "native"
    /\ faulty = FALSE
    /\ last \in CalendarInputs

CalendarFrame ==
    UNCHANGED <<now, platform, firearms, applications, settings, schedule,
                applicationSchedule, pending, notificationCounter, issued,
                nextRecordId, faulty, steps, tasks, fetch, details, list,
                lookups, server>>

ApplyIsPublicHoliday ==
    /\ last.op = "isPublicHoliday" /\ last.result = <<>>
    /\ last' = [last EXCEPT !.result =
                  <<isPublicHoliday(DateAt(last.civil, last.timeOfDay))>>]
    /\ CalendarFrame

ApplyIsWorkingDay ==
    /\ last.op = "isWorkingDay" /\ last.result = <<>>
    /\ last' = [last EXCEPT !.result =
                  <<isWorkingDay(DateAt(last.civil, last.timeOfDay))>>]
    /\ CalendarFrame

ApplyCalculateWorkingDays ==
    /\ last.op = "calculateWorkingDays" /\ last.result = <<>>
    /\ last' = [last EXCEPT !.result =
                  <<calculateWorkingDays(DateAt(last.civil, last.timeOfDay),
                                         DateAt(last.endCivil, last.endTimeOfDay))>>]
    /\ CalendarFrame

ApplyGetEasterDate ==
    /\ last.op = "getEasterDate" /\ last.result = <<>>
    /\ last' = [last EXCEPT !.result =
                  << [ easter |-> getEasterDate(last.civil[1]),
                       holidays |-> getEasterBasedHolidays(last.civil[1]) ] >>]
    /\ CalendarFrame

NextCalendar ==
    \/ ApplyIsPublicHoliday
    \/ ApplyIsWorkingDay
    \/ ApplyCalculateWorkingDays
    \/ ApplyGetEasterDate

SpecCalendar == InitCalendar /\ [][NextCalendar]_vars

----------------------------------------------------------------------------
(* Application reminders until they fire.  The clock starts on a day of    *)
(* March 2024, around Human Rights Day and Easter; an application dated in *)
(* mid-November 2023 has then been pending for 83 to 95 working days.      *)

ReminderNowChoices == { DateAt(<<2024, 3, d>>, 10 * 60 * 60) : d \in 18..28 }

ReminderDateChoices == { DaysFromCivil(2023, 11, d) : d \in {13, 14, 15, 21, 22} }

InitReminders ==
    /\ now \in ReminderNowChoices
    /\ firearms = <<>>
    /\ applications = <<>>
    /\ settings = <<>>
    /\ schedule = <<>>
    /\ applicationSchedule = <<>>
    /\ pending = {}
    /\ notificationCounter = CounterSeed
    /\ issued = <<>>
    /\ nextRecordId = 1
    /\ steps = 0
    /\ tasks = <<>>
    /\ fetch = NoFetch
    /\ details = NoDetails
    /\ list = NoList
    /\ lookups = <<>>
    /\ server = NoServer
    /\ last = NoHandler
    /\ platform = "native"
    /\ faulty = FALSE

\* the native capability delivers a registered application reminder at its
\* schedule.at; nothing of the app runs
reminderFires(p) ==
    /\ p.at >= now
    /\ now' = p.at
    /\ pending' = pending \ {p}
    /\ last' = [NoHandler EXCEPT !.op = "reminderFires", !.rec = p.ref,
                                 !.arg = p.days]
    /\ UNCHANGED <<platform, firearms, applications, settings, schedule,
                   applicationSchedule, notificationCounter, issued,
                   nextRecordId, faulty, steps, tasks, fetch, details, list,
                   lookups, server>>

ReminderAdded == \E d \in ReminderDateChoices : handleApplicationAdded(d, {})
ReminderFires == \E p \in ApplicationPending : reminderFires(p)

NextReminders ==
    \/ ReminderAdded
    \/ ReminderFires

SpecReminders == InitReminders /\ [][NextReminders]_vars

----------------------------------------------------------------------------
(* The firearm forms of FirearmTracker.tsx.  A record's issueDate is the   *)
(* text 'YYYY-MM-DD', kept as <<year, month, day>>; its issueDate, section, *)
(* title and serial number are kept in details.firearms.                   *)

\* a catalog in which every section has the fallback duration
SectionDurationFallback(section) == 5

\* SECTION_OPTIONS.find(s => s.value === section)?.duration || 5
SectionDuration(section) ==
    CASE section \in {"section_13", "section_20_hunting"} -> 5
      [] section \in {"section_14", "section_20_other", "section_20_theatre",
                      "section_20_security", "section_20_training",
                      "section_20_game"} -> 2
      [] section \in {"section_15", "section_16", "section_17", "section_19"} -> 10
      [] OTHER -> 5

\* Date.setFullYear: the same local month, day and time of day in the
\* given year; 29 February of a year that has none is 1 March
setFullYear(t, year) ==
    DaysFromCivil(year, CivilFromDays(LocalDay(t)).month,
                  CivilFromDays(LocalDay(t)).day) * SecondsPerDay
      - sastOffset + ((t + sastOffset) % SecondsPerDay)

\* toISOString().split('T')[0]: the UTC day of an instant
toISODate(t) == t \div SecondsPerDay

\* the expiry date both forms compute
ExpiryDate(issueDate, section) ==
    toISODate(setFullYear(
        DateFromISO(DaysFromCivil(issueDate[1], issueDate[2], issueDate[3])),
        getFullYear(DateFromISO(DaysFromCivil(issueDate[1], issueDate[2], issueDate[3])))
          + SectionDuration(section)))

\* String.prototype.toLowerCase on the words of the forms
toLowerCase(text) ==
    [ i \in 1..Len(text) |->
        CASE text[i] = "Glock" -> "glock"
          [] text[i] = "CZ" -> "cz"
          [] text[i] = "SN1" -> "sn1"
          [] OTHER -> text[i] ]

FirearmForm(title, serialNumber, issueDate, section) ==
    [ title |-> title, serialNumber |-> serialNumber,
      issueDate |-> issueDate, section |-> section ]

\* what the user enters: expiry dates the day after the base day, ten days
\* after it, and for a licence issued on 29 February; forms that differ
\* from the first in the section only and in the issue date only; titles
\* and serial numbers that differ in case and blanks only, serial numbers
\* left empty or filled with a blank
FirearmFormChoices ==
    { FirearmForm(<<"Glock">>, <<"SN1">>, <<2019, 9, 20>>, "section_13"),
      FirearmForm(<<"glock", Space>>, <<"sn1">>, <<2022, 9, 29>>, "section_14"),
      FirearmForm(<<"Glock">>, <<>>, <<2020, 2, 29>>, "section_20_hunting"),
      FirearmForm(<<"CZ">>, <<>>, <<2014, 9, 29>>, "section_15"),
      FirearmForm(<<"CZ">>, <<"SN1">>, <<2019, 9, 20>>, "section_20_game"),
      FirearmForm(<<"Glock">>, <<"SN1">>, <<2019, 9, 20>>, "section_16"),
      FirearmForm(<<"Glock">>, <<"SN1">>, <<2022, 9, 29>>, "section_13"),
      FirearmForm(<<Space>>, <<>>, <<2019, 9, 20>>, "section_13"),
      FirearmForm(<<"CZ">>, <<Space>>, <<2014, 9, 29>>, "section_15"),
      FirearmForm(<<"CZ">>, <<>>, <<>>, "section_13"),
      FirearmForm(<<"CZ">>, <<>>, <<2019, 9, 20>>, "") }

\* the required fields of both forms
FirearmFormComplete(form) ==
    ~(trim(form.title) = <<>> \/ form.issueDate = <<>> \/ form.section = "")

\* a duplicate check that does not leave out the record being edited
isDuplicateOfAny(form, existingFirearms, id) ==
    \E i \in 1..Len(existingFirearms) :
        LET f == existingFirearms[i]
        IN  /\ trim(toLowerCase(f.title)) = trim(toLowerCase(form.title))
            /\ f.serialNumber # <<>> /\ form.serialNumber # <<>>
            /\ trim(toLowerCase(f.serialNumber)) = trim(toLowerCase(form.serialNumber))

\* the duplicate check of both forms; the add form passes no id (0)
isDuplicate(form, existingFirearms, id) ==
    \E i \in 1..Len(existingFirearms) :
        LET f == existingFirearms[i]
        IN  /\ f.id # id
            /\ trim(toLowerCase(f.title)) = trim(toLowerCase(form.title))
            /\ f.serialNumber # <<>> /\ form.serialNumber # <<>>
            /\ trim(toLowerCase(f.serialNumber)) = trim(toLowerCase(form.serialNumber))

FirearmDetails(id) == details.firearms[FindRecord(details.firearms, id)]

\* the notification state a firearm handler of the page leaves
FirearmCommit(S) ==
    /\ steps < MaxEvents
    /\ steps' = steps + 1
    /\ S.notificationCounter <= MaxCounter
    /\ schedule' = S.schedule
    /\ applicationSchedule' = S.applicationSchedule
    /\ pending' = S.pending
    /\ notificationCounter' = S.notificationCounter
    /\ issued' = S.issued
    /\ UNCHANGED <<now, platform, applications, settings, faulty, tasks, fetch, list,
                   lookups, server>>

\* setFormError(...) and return: nothing is stored or scheduled
firearmFormError(op, error) ==
    /\ last' = [NoHandler EXCEPT !.op = op, !.call = error]
    /\ UNCHANGED <<now, platform, firearms, applications, settings, schedule,
                   applicationSchedule, pending, notificationCounter, issued,
                   nextRecordId, faulty, steps, tasks, fetch, details, list,
                   lookups, server>>

\* the form is stored: handleFirearmSubmit after its checks
firearmFormStore(form) ==
    /\ nextRecordId <= MaxRecords
    /\ LET expiryDate == ExpiryDate(form.issueDate, form.section)
           newFirearm == [id |-> nextRecordId, expiryDate |-> expiryDate]
           S0 == Service({})
           S  == IF NotificationsEnabled(newFirearm.id)
                 THEN scheduleFirearmNotifications(S0, newFirearm, now)
                 ELSE S0
       IN  /\ firearms' = addFirearm(firearms, nextRecordId, expiryDate)
           /\ nextRecordId' = nextRecordId + 1
           /\ FirearmCommit(S)
           /\ last' = Ran("handleFirearmSubmit",
                          IF NotificationsEnabled(newFirearm.id)
                          THEN "scheduleFirearmNotifications" ELSE "none",
                          newFirearm.id, expiryDate, S0, S)
    /\ details' = [details EXCEPT !.firearms =
                     Append(@, [id |-> nextRecordId] @@ form)]

\* handleFirearmSubmit with the fields of the form
firearmFormSubmit(form) ==
    IF ~FirearmFormComplete(form)
    THEN firearmFormError("handleFirearmSubmit", "required")
    ELSE IF isDuplicate(form, details.firearms, 0)
    THEN firearmFormError("handleFirearmSubmit", "duplicate")
    ELSE firearmFormStore(form)

\* the record is replaced: handleSubmit of EditFirearmDialog after its
\* checks, and handleFirearmUpdate through onUpdate
editFirearmStore(id, form) ==
    /\ LET expiryDate == ExpiryDate(form.issueDate, form.section)
           updatedFirearm == [id |-> id, expiryDate |-> expiryDate]
           S0 == Service({})
           S  == IF NotificationsEnabled(id)
                 THEN scheduleFirearmNotifications(S0, updatedFirearm, now)
                 ELSE S0
       IN  /\ firearms' = updateFirearm(firearms, id, updatedFirearm)
           /\ FirearmCommit(S)
           /\ last' = Ran("handleFirearmUpdate",
                          IF NotificationsEnabled(id)
                          THEN "scheduleFirearmNotifications" ELSE "none",
                          id, expiryDate, S0, S)
    /\ details' = [details EXCEPT !.firearms =
                     [ i \in 1..Len(@) |->
                         IF @[i].id = id THEN [id |-> id] @@ form ELSE @[i] ]]
    /\ nextRecordId' = nextRecordId

\* handleSubmit of EditFirearmDialog for the stored record id
editFirearmSubmit(id, form) ==
    /\ FindRecord(firearms, id) > 0
    /\ IF ~FirearmFormComplete(form)
       THEN firearmFormError("handleFirearmUpdate", "required")
       ELSE IF isDuplicate(form, details.firearms, id)
       THEN firearmFormError("handleFirearmUpdate", "duplicate")
       ELSE editFirearmStore(id, form)

FirearmFormSubmit == \E form \in FirearmFormChoices : firearmFormSubmit(form)
EditFirearmSubmit ==
    \E id \in 1..MaxRecords, form \in FirearmFormChoices : editFirearmSubmit(id, form)

NextFirearmForms ==
    \/ FirearmFormSubmit
    \/ EditFirearmSubmit

SpecFirearmForms == Init /\ [][NextFirearmForms]_vars

----------------------------------------------------------------------------
(* utils/storage.ts on its own: the functions are called one after the     *)
(* other while the clock runs.  An id is Date.now().toString(), the digits  *)
(* of the clock reading, kept here as that reading; the clock need not have *)
(* advanced between two calls.                                              *)

\* Date.now() of the device
DateNow == now

StorageFrame ==
    /\ steps < MaxEvents
    /\ steps' = steps + 1
    /\ UNCHANGED <<platform, settings, schedule, applicationSchedule, pending,
                   notificationCounter, issued, nextRecordId, faulty, tasks,
                   fetch, details, list, lookups, server>>

\* the clock reading changes
storageClock ==
    /\ now' = now + 1
    /\ last' = [NoHandler EXCEPT !.op = "tick"]
    /\ UNCHANGED <<firearms, applications>>
    /\ StorageFrame

storageAddFirearm(expiryDate) ==
    /\ Len(firearms) < MaxRecords
    /\ firearms' = addFirearm(firearms, DateNow, expiryDate)
    /\ last' = [NoHandler EXCEPT !.op = "addFirearm", !.rec = DateNow]
    /\ UNCHANGED <<now, applications>>
    /\ StorageFrame

storageUpdateFirearm(id, expiryDate) ==
    /\ FindRecord(firearms, id) > 0
    /\ firearms' = updateFirearm(firearms, id, [id |-> id, expiryDate |-> expiryDate])
    /\ last' = [NoHandler EXCEPT !.op = "updateFirearm", !.rec = id]
    /\ UNCHANGED <<now, applications>>
    /\ StorageFrame

storageDeleteFirearm(id) ==
    /\ FindRecord(firearms, id) > 0
    /\ firearms' = deleteFirearm(firearms, id)
    /\ last' = [NoHandler EXCEPT !.op = "deleteFirearm", !.rec = id]
    /\ UNCHANGED <<now, applications>>
    /\ StorageFrame

storageAddApplication(dateApplied) ==
    /\ Len(applications) < MaxRecords
    /\ applications' = addApplication(applications, DateNow, dateApplied)
    /\ last' = [NoHandler EXCEPT !.op = "addApplication", !.rec = DateNow]
    /\ UNCHANGED <<now, firearms>>
    /\ StorageFrame

storageUpdateApplication(id, dateApplied) ==
    /\ FindRecord(applications, id) > 0
    /\ applications' = updateApplication(applications, id,
                                         [id |-> id, dateApplied |-> dateApplied])
    /\ last' = [NoHandler EXCEPT !.op = "updateApplication", !.rec = id]
    /\ UNCHANGED <<now, firearms>>
    /\ StorageFrame

storageDeleteApplication(id) ==
    /\ FindRecord(applications, id) > 0
    /\ applications' = deleteApplication(applications, id)
    /\ last' = [NoHandler EXCEPT !.op = "deleteApplication", !.rec = id]
    /\ UNCHANGED <<now, firearms>>
    /\ StorageFrame

\* the ids in use
StoredIds == { firearms[i].id : i \in DOMAIN firearms }
                \cup { applications[i].id : i \in DOMAIN applications }

StorageClock == storageClock
StorageAddFirearm == \E e \in ExpiryChoices : storageAddFirearm(e)
StorageUpdateFirearm ==
    \E id \in StoredIds, e \in ExpiryChoices : storageUpdateFirearm(id, e)
StorageDeleteFirearm == \E id \in StoredIds : storageDeleteFirearm(id)
StorageAddApplication == \E d \in DateAppliedChoices : storageAddApplication(d)
StorageUpdateApplication ==
    \E id \in StoredIds, d \in DateAppliedChoices : storageUpdateApplication(id, d)
StorageDeleteApplication == \E id \in StoredIds : storageDeleteApplication(id)

NextStorage ==
    \/ StorageClock
    \/ StorageAddFirearm
    \/ StorageUpdateFirearm
    \/ StorageDeleteFirearm
    \/ StorageAddApplication
    \/ StorageUpdateApplication
    \/ StorageDeleteApplication

SpecStorage == Init /\ [][NextStorage]_vars

----------------------------------------------------------------------------
(* components/ServerStatus.tsx.  server.interval is the timer of            *)
(* setInterval, <<>> or the instant it is due next; server.started lists    *)
(* the instants at which performStatusCheck was started since the mount;    *)
(* server.probes counts the checkServerStatus calls still awaited.  The     *)
(* clock moves in thirds of the interval and does not pass a due timer.     *)

\* 5 * 60 * 1000 ms, in seconds
ProbeInterval == 300

\* checkServerStatus as a function of what its three requests find: the
\* AllOrigins proxy delivers the site, corsproxy.io delivers it, and the
\* connectivity test reaches a proxy
checkServerStatus(allOrigins, corsProxy, connectivity) ==
    IF allOrigins THEN [status |-> TRUE, method |-> "AllOrigins"]
    ELSE IF corsProxy THEN [status |-> TRUE, method |-> "CorsProxy"]
    ELSE IF connectivity THEN [status |-> FALSE, method |-> "Connectivity (SAPS down)"]
    ELSE [status |-> FALSE, method |-> "All methods failed"]

\* performStatusCheck up to its await, started at the instant t in the
\* component state c
performStatusCheck(c, t) ==
    IF isSASTPlannedDowntime(t)
    THEN [c EXCEPT !.isOnline = <<FALSE>>, !.checkMethod = "Planned Downtime",
                   !.lastChecked = <<t>>, !.started = Append(@, t)]
    ELSE [c EXCEPT !.probes = @ + 1, !.started = Append(@, t)]

ServerFrame ==
    UNCHANGED <<platform, firearms, applications, settings, schedule,
                applicationSchedule, pending, notificationCounter, issued,
                nextRecordId, faulty, tasks, fetch, details, list, lookups>>

\* the effect of useEffect(..., []): the check runs at once and the interval
\* timer is set
serverMount ==
    /\ ~server.mounted
    /\ server' = [performStatusCheck([server EXCEPT !.started = <<>>], now)
                    EXCEPT !.mounted = TRUE, !.interval = <<now + ProbeInterval>>]
    /\ last' = [NoHandler EXCEPT !.op = "mount"]
    /\ steps < MaxProbeTicks
    /\ steps' = steps + 1
    /\ now' = now
    /\ ServerFrame

\* the interval timer is due: performStatusCheck runs and the timer is due
\* again one interval later
serverIntervalFires ==
    /\ server.interval = <<now>>
    /\ server' = [performStatusCheck(server, now)
                    EXCEPT !.interval = <<now + ProbeInterval>>]
    /\ last' = [NoHandler EXCEPT !.op = "performStatusCheck"]
    /\ UNCHANGED <<now, steps>>
    /\ ServerFrame

\* performStatusCheck after its await; React drops the state updates of a
\* component that is no longer mounted
serverProbeSettles(result) ==
    /\ server.probes > 0
    /\ server' = IF server.mounted
                 THEN [server EXCEPT !.probes = @ - 1,
                                     !.isOnline = <<result.status>>,
                                     !.checkMethod = result.method,
                                     !.lastChecked = <<now>>]
                 ELSE [server EXCEPT !.probes = @ - 1]
    /\ last' = [NoHandler EXCEPT !.op = "probeSettles"]
    /\ UNCHANGED <<now, steps>>
    /\ ServerFrame

\* a teardown that leaves the timer running
serverUnmountKeepsTimer ==
    /\ server.mounted
    /\ server' = [server EXCEPT !.mounted = FALSE]
    /\ last' = [NoHandler EXCEPT !.op = "unmount"]
    /\ UNCHANGED <<now, steps>>
    /\ ServerFrame

\* the cleanup of the effect: clearInterval(interval)
serverUnmount ==
    /\ server.mounted
    /\ server' = [server EXCEPT !.mounted = FALSE, !.interval = <<>>]
    /\ last' = [NoHandler EXCEPT !.op = "unmount"]
    /\ UNCHANGED <<now, steps>>
    /\ ServerFrame

\* time passes, up to the instant the timer is due
serverClock ==
    /\ steps < MaxProbeTicks
    /\ steps' = steps + 1
    /\ now' = now + ProbeInterval \div 3
    /\ server.interval # <<>> => now' <= server.interval[1]
    /\ last' = [NoHandler EXCEPT !.op = "tick"]
    /\ server' = server
    /\ ServerFrame

ServerMount == serverMount
ServerIntervalFires == serverIntervalFires
ServerProbeSettles ==
    \E allOrigins, corsProxy, connectivity \in BOOLEAN :
        serverProbeSettles(checkServerStatus(allOrigins, corsProxy, connectivity))
ServerUnmount == serverUnmount
ServerClock == serverClock

NextServer ==
    \/ ServerMount
    \/ ServerIntervalFires
    \/ ServerProbeSettles
    \/ ServerUnmount
    \/ ServerClock

SpecServer == InitList /\ [][NextServer]_vars

----------------------------------------------------------------------------
(* Properties *)

RecordIds == 1..(MaxRecords + 1)

\* the reminders registered for a firearm record, and their ids
FirearmPending(id) == { p \in pending : p.type = "firearm" /\ p.ref = id }
PendingIds(ps) == { p.id : p \in ps }

\* the ids the persisted firearm schedule records for a record
ScheduledIds(id) ==
    UNION { Range(schedule[i].notificationIds) :
              i \in { j \in 1..Len(schedule) : schedule[j].firearmId = id } }

\* the offsets of the specification, and those whose instant
\* expiry - d days is strictly after the instant t
Offsets == {365, 180, 90, 60, 30, 14, 7, 3, 1}
OffsetsAfter(expiryDate, t) ==
    { d \in Offsets : expiryDate * 86400 - d * 86400 > t }

\* C1: after every completed handler, the ids the persisted firearm schedule
\* records for a record are exactly the ids of the reminders registered for
\* that record with the native capability.
C1_ScheduleMatchesNative ==
    \A id \in RecordIds : ScheduledIds(id) = PendingIds(FirearmPending(id))

\* C2: when scheduleFirearmNotifications has run twice in succession for
\* the same record, with the same expiry and clock, the record has exactly
\* one registered reminder and one persisted id per offset still in the
\* future (at most 9), and no id of the first call is registered any more.
C2_ScheduleTwice ==
    last.again =>
        LET offs == OffsetsAfter(last.arg, now)
            live == FirearmPending(last.rec)
        IN  /\ Cardinality(live) = Cardinality(offs)
            /\ Cardinality(live) <= 9
            /\ \A d \in offs : Cardinality({ p \in live : p.days = d }) = 1
            /\ ScheduledIds(last.rec) = PendingIds(live)
            /\ Len(FirearmEntryIds(schedule, last.rec)) = Cardinality(offs)
            /\ \A i \in Range(last.before) : i \notin PendingIds(pending)

C2_Witness ==
    /\ last.again
    /\ Len(last.before) >= 3
    /\ Len(last.ids) >= 3

\* C3: once every task has finished, no firearm record has two registered
\* reminders for the same offset, and a deleted record has none.
C3_TasksSettle ==
    tasks = <<>> =>
        \A id \in RecordIds :
            /\ \A d \in Offsets :
                  Cardinality({ p \in FirearmPending(id) : p.days = d }) <= 1
            /\ (id < nextRecordId /\ FindRecord(firearms, id) = 0)
                  => FirearmPending(id) = {}

\* the entries of the firearm schedule for records other than id
OtherEntries(sched, id) == SelectSeq(sched, LAMBDA e : e.firearmId # id)
\* the registered reminders that are not reminders of firearm record id
OtherPending(ps, id) == { p \in ps : ~(p.type = "firearm" /\ p.ref = id) }

\* every entry of the persisted schedule refers to a record of the store
C4_EntriesHaveRecords ==
    \A i \in 1..Len(schedule) : FindRecord(firearms, schedule[i].firearmId) > 0

\* what a step of confirmFirearmDelete for record X changes and keeps
C4_DeleteStep ==
    last'.op = "confirmFirearmDelete" =>
        LET X == last'.rec
        IN  /\ FindFirearmSchedule(schedule', X) = 0
            /\ \A i \in ScheduledIds(X) : \A p \in pending' : p.id # i
            /\ OtherEntries(schedule', X) = OtherEntries(schedule, X)
            /\ OtherPending(pending', X) = OtherPending(pending, X)

\* C4: a step of confirmFirearmDelete for record X leaves no entry for X and
\* none of the ids X's entry held registered, and leaves the entries and
\* the registered reminders of every other record as they were; and every
\* entry of the persisted schedule refers to a record of the record store.
C4_DeleteCascades == [](C4_EntriesHaveRecords) /\ [][C4_DeleteStep]_vars

\* the entries of the application schedule for applications other than id
OtherApplicationEntries(sched, id) ==
    SelectSeq(sched, LAMBDA e : e.applicationId # id)
\* the registered reminders that are not reminders of application id
OtherApplicationPending(ps, id) ==
    { p \in ps : ~(p.type = "application_pending" /\ p.ref = id) }

\* C5: in every state, cancelFirearmNotifications(id) and
\* cancelApplicationNotification(id) leave no entry for id, leave the
\* entries and the registered reminders of every other record as they are,
\* and change nothing when id has no entry.
C5_CancelOnlyOwn ==
    \A id \in RecordIds :
        LET S0 == Service({})
            F  == cancelFirearmNotifications(S0, id)
            A  == cancelApplicationNotification(S0, id)
        IN  /\ FindFirearmSchedule(F.schedule, id) = 0
            /\ OtherEntries(F.schedule, id) = OtherEntries(schedule, id)
            /\ OtherPending(F.pending, id) = OtherPending(pending, id)
            /\ F.applicationSchedule = applicationSchedule
            /\ FindFirearmSchedule(schedule, id) = 0 => F = S0
            /\ FindApplicationSchedule(A.applicationSchedule, id) = 0
            /\ OtherApplicationEntries(A.applicationSchedule, id)
                 = OtherApplicationEntries(applicationSchedule, id)
            /\ OtherApplicationPending(A.pending, id)
                 = OtherApplicationPending(pending, id)
            /\ A.schedule = schedule
            /\ FindApplicationSchedule(applicationSchedule, id) = 0 => A = S0

\* C6: after a handler that called scheduleFirearmNotifications for a record
\* with expiry date e, the reminders registered for the record are exactly
\* one per offset d with e - d days strictly after now, firing at e - d
\* days, with ids handed out in this run, pairwise distinct and handed out
\* to no earlier reminder of this process; for e ten days from now the
\* offsets are 7, 3 and 1.
C6_ScheduledOffsets ==
    last.call = "scheduleFirearmNotifications" =>
        LET e == last.arg
            offs == OffsetsAfter(e, now)
            live == FirearmPending(last.rec)
        IN  /\ { <<p.days, p.at>> : p \in live }
                 = { <<d, e * 86400 - d * 86400>> : d \in offs }
            /\ Cardinality(live) = Cardinality(offs)
            /\ PendingIds(live) = Range(last.ids)
            /\ Len(last.ids) = Cardinality(offs)
            /\ \A i \in 1..(Len(issued) - Len(last.ids)) :
                   issued[i] \notin Range(last.ids)
            /\ (e * 86400 = now + 10 * 86400 => offs = {7, 3, 1})

C6_Witness ==
    /\ last.call = "scheduleFirearmNotifications"
    /\ last.arg * 86400 = now + 10 * 86400
    /\ { p.days : p \in FirearmPending(last.rec) } = {7, 3, 1}

\* C7: the ids handed out since the process started are all at least 1000
\* and each is strictly larger than every id handed out before it.
C7_IdsIncrease ==
    /\ \A i \in 1..Len(issued) : issued[i] >= 1000
    /\ \A i, j \in 1..Len(issued) : i < j => issued[i] < issued[j]

C7_Witness ==
    /\ \E p \in pending : p.type = "firearm" /\ p.id \in Range(issued)
    /\ \E p \in pending : p.type = "application_pending" /\ p.id \in Range(issued)
    /\ \E p \in pending : p.type = "test" /\ p.id \in Range(issued)

\* the shape of a firearm schedule: its entries without the id values
ScheduleShape(sched) ==
    [ i \in 1..Len(sched) |->
        [ firearmId |-> sched[i].firearmId,
          expiryDate |-> sched[i].expiryDate,
          count |-> Len(sched[i].notificationIds) ] ]

\* C8: after rescheduleAllFirearms(records) the persisted schedule holds, in
\* the order of the records, one entry for each supplied record with an
\* offset still in the future, with one id per such offset and each id
\* registered, and no entry and no registered reminder for a record outside
\* the supplied set, whatever the state before.
C8_RescheduleAll ==
    last.op = "rescheduleAll" =>
        LET supplied == SelectSeq(firearms, LAMBDA r :
                            /\ r.id \in last.arg
                            /\ OffsetsAfter(r.expiryDate, now) # {})
        IN  /\ ScheduleShape(schedule) =
                 [ i \in 1..Len(supplied) |->
                     [ firearmId |-> supplied[i].id,
                       expiryDate |-> supplied[i].expiryDate,
                       count |-> Cardinality(OffsetsAfter(supplied[i].expiryDate, now)) ] ]
            /\ \A i \in 1..Len(schedule) :
                   /\ Cardinality(Range(schedule[i].notificationIds))
                        = Len(schedule[i].notificationIds)
                   /\ Range(schedule[i].notificationIds)
                        = PendingIds(FirearmPending(schedule[i].firearmId))
            /\ \A id \in RecordIds \ last.arg :
                   FirearmPending(id) = {} /\ ScheduledIds(id) = {}

C8_Witness ==
    /\ last.op = "rescheduleAll"
    /\ Len(firearms) = 2
    /\ Cardinality(last.arg) = 1
    /\ Len(schedule) = 1

\* the working days an application has been pending
WorkingDaysPending(app) == calculateWorkingDays(app.dateApplied * 86400, now)

\* C9: after a handler that called scheduleApplicationNotifications(apps),
\* the persisted application schedule holds exactly one entry for each
\* supplied application pending for at least 88 working days and no other
\* entry, and the registered application reminders are exactly the ones of
\* these entries: every application reminder tracked before is cancelled.
C9_ApplicationsReplaced ==
    last.call = "scheduleApplicationNotifications" =>
        LET due == SelectSeq(applications, LAMBDA a : WorkingDaysPending(a) >= 88)
        IN  /\ Len(applicationSchedule) = Len(due)
            /\ \A i \in 1..Len(due) :
                   applicationSchedule[i].applicationId = due[i].id
            /\ { <<p.id, p.ref>> : p \in ApplicationPending }
                 = { <<applicationSchedule[i].notificationId,
                       applicationSchedule[i].applicationId>> :
                       i \in 1..Len(applicationSchedule) }
            /\ Cardinality(ApplicationPending) = Len(due)

C9_Witness ==
    /\ last.call = "scheduleApplicationNotifications"
    /\ last.op = "handleApplicationUpdated"
    /\ last.had # <<>>
    /\ Len(applications) = 2
    /\ Len(applicationSchedule) = 1
    /\ applicationSchedule[1].applicationId # last.rec

\* C10: after a handler that called scheduleApplicationNotifications, an
\* application has a reminder exactly when its working-days-pending is at
\* least 88; the reminder fires one minute after now when the count is 90
\* or more, and otherwise 92 - count days after now: 4 days for 88, 3 days
\* for 89.
C10_ApplicationFireTime ==
    last.call = "scheduleApplicationNotifications" =>
        \A k \in 1..Len(applications) :
            LET app == applications[k]
                count == WorkingDaysPending(app)
                mine == { p \in ApplicationPending : p.ref = app.id }
            IN  /\ (mine # {}) <=> (count >= 88)
                /\ \A p \in mine :
                       /\ count >= 90 => p.at = now + 60
                       /\ count = 88 => p.at = now + 4 * 86400
                       /\ count = 89 => p.at = now + 3 * 86400
                       /\ count < 90 => p.at = now + (92 - count) * 86400

C10_Witness ==
    /\ last.call = "scheduleApplicationNotifications"
    /\ \E p \in ApplicationPending : p.days = 88 /\ p.at = now + 4 * 86400
    /\ \E p \in ApplicationPending : p.days >= 90 /\ p.at = now + 60


\* the records a batch ran over: the ones handed to rescheduleAllFirearms,
\* or the enabled ones of the startup loop
BatchRecords ==
    IF last.op = "rescheduleAll"
    THEN SelectSeq(firearms, LAMBDA r : r.id \in last.arg)
    ELSE IF last.op = "appStart" /\ last.arg = TRUE
    THEN SelectSeq(firearms, LAMBDA r : NotificationsEnabled(r.id))
    ELSE <<>>

\* the number of ids the batch hands out when it reaches every record
RECURSIVE BatchOffsetCount(_)
BatchOffsetCount(records) ==
    IF records = <<>> THEN 0
    ELSE Cardinality(OffsetsAfter(Head(records).expiryDate, now))
         + BatchOffsetCount(Tail(records))

\* the record was scheduled and persisted by the batch that just ran: its
\* entry holds the record's date and one id of this run for each offset
\* still ahead, and no other reminder is registered under these ids
ScheduledByBatch(r) ==
    LET idx == FindFirearmSchedule(schedule, r.id)
    IN  /\ idx > 0
        /\ schedule[idx].expiryDate = r.expiryDate
        /\ Len(schedule[idx].notificationIds)
              = Cardinality(OffsetsAfter(r.expiryDate, now))
        /\ Range(schedule[idx].notificationIds) \subseteq Range(last.ids)
        /\ \A p \in pending :
              p.id \in Range(schedule[idx].notificationIds)
                 => p.type = "firearm" /\ p.ref = r.id

\* the records of the batch that have an offset ahead and were not scheduled
BatchMissed ==
    { i \in 1..Len(BatchRecords) :
        /\ OffsetsAfter(BatchRecords[i].expiryDate, now) # {}
        /\ ~ScheduledByBatch(BatchRecords[i]) }

\* C11: after a batch over firearm records (rescheduleAllFirearms or the
\* startup loop) in which the native capability rejects at most one call,
\* the loop has reached every record (it handed out an id for every offset
\* ahead of every record), at most one record is left unscheduled, and a
\* record is left unscheduled only when ids of the run were lost to a
\* rejected call (an id that no entry written by the run holds): every
\* other record is scheduled and persisted.
C11_BatchIsolatesFailure ==
    last.op \in {"rescheduleAll", "appStart"} =>
        /\ Len(last.ids) >= BatchOffsetCount(BatchRecords)
        /\ Cardinality(BatchMissed) <= 1
        /\ BatchMissed # {} =>
              \E id \in Range(last.ids) :
                 /\ \A i \in 1..Len(schedule) :
                       id \notin Range(schedule[i].notificationIds)
                 /\ last.op = "appStart" =>
                       \A i \in 1..Len(applicationSchedule) :
                          applicationSchedule[i].notificationId # id

\* a batch over two records in which the first record's schedule call was
\* rejected and the second record is scheduled, persisted and registered
C11_Witness ==
    /\ faulty
    /\ last.op \in {"rescheduleAll", "appStart"}
    /\ Len(BatchRecords) = 2
    /\ BatchMissed = {1}
    /\ ScheduledByBatch(BatchRecords[2])
    /\ \A id \in ScheduledIds(BatchRecords[2].id) : id \in PendingIds(pending)


\* the applications of the last scheduleApplicationNotifications call that
\* are due for a reminder and have neither an entry in the persisted
\* application schedule with a registered reminder of their own
ApplicationsMissed ==
    { k \in 1..Len(applications) :
        /\ WorkingDaysPending(applications[k]) >= OverdueWarnFrom
        /\ ~\E i \in 1..Len(applicationSchedule) :
              /\ applicationSchedule[i].applicationId = applications[k].id
              /\ \E p \in ApplicationPending :
                    /\ p.id = applicationSchedule[i].notificationId
                    /\ p.ref = applications[k].id }

\* C12: after a handler that called scheduleApplicationNotifications on a
\* device whose native capability rejects at most one call of the run, at
\* most one due application is left without its registered reminder and its
\* entry in the persisted application schedule: a registration failure for
\* one application's reminder leaves the remaining applications scheduled.
C12_ApplicationsIsolated ==
    last.call = "scheduleApplicationNotifications" =>
        Cardinality(ApplicationsMissed) <= 1


\* C13: after a handler that called scheduleFirearmNotifications for a
\* record none of whose offset instants is after now (an expired record, or
\* one whose last offset instant is now), no reminder is registered for the
\* record, no id was handed out, the persisted schedule has no entry for
\* the record, the ids of its previous entry are no longer registered, and
\* the call ends without an error.
C13_ExpiredRecord ==
    (last.call = "scheduleFirearmNotifications"
        /\ OffsetsAfter(last.arg, now) = {}) =>
        /\ FirearmPending(last.rec) = {}
        /\ last.ids = <<>>
        /\ FindFirearmSchedule(schedule, last.rec) = 0
        /\ \A id \in Range(last.had) : id \notin PendingIds(pending)
        /\ ~scheduleFirearmNotifications(
               Service({}), [id |-> last.rec, expiryDate |-> last.arg], now).threw

\* a record that had an entry is scheduled again when its last offset
\* instant has passed
C13_Witness ==
    /\ last.call = "scheduleFirearmNotifications"
    /\ OffsetsAfter(last.arg, now) = {}
    /\ last.had # <<>>
    /\ pending = {}
    /\ schedule = <<>>


\* a service state whose schedules hold entries left by a native run, with
\* a rejection armed for the first native call
StoredService ==
    [ Service({1}) EXCEPT
        !.schedule = << [ firearmId |-> 1, expiryDate |-> BaseDay + 10,
                          notificationIds |-> <<CounterSeed, CounterSeed + 1>> ] >>,
        !.applicationSchedule =
            << [ applicationId |-> 2, notificationId |-> CounterSeed + 2 ] >>,
        !.notificationCounter = CounterSeed + 3 ]

\* every scheduling call of the service returns the service state it got:
\* no native call, no change of a schedule or of the counter, no error
ServiceCallsAreNoOps(S) ==
    /\ \A e \in ExpiryChoices, id \in 1..MaxRecords :
          scheduleFirearmNotifications(S, [id |-> id, expiryDate |-> e], now) = S
    /\ \A id \in 1..MaxRecords : cancelFirearmNotifications(S, id) = S
    /\ \A records \in SubLists(firearms) : rescheduleAllFirearms(S, records, now) = S
    /\ cancelAllNotifications(S) = S
    /\ scheduleApplicationNotifications(S, applications, now) = S
    /\ cancelAllApplicationNotifications(S) = S
    /\ \A id \in 1..MaxRecords : cancelApplicationNotification(S, id) = S
    /\ scheduleTestNotification(S, now) = S

Urgency(title) ==
    CASE title \in {"1 Year Notice", "Time to start renewal"} -> 0
      [] title = "Renewal required" -> 1
      [] title = "URGENT" -> 2
      [] title = "CRITICAL" -> 3

\* the urgency the specification gives an offset
TierOf(days) ==
    IF days >= 90 THEN 0
    ELSE IF days >= 30 THEN 1
    ELSE IF days >= 7 THEN 2
    ELSE 3

\* C15: the tone of a firearm reminder is determined by its offset: routine
\* at 90 days or more (365, 180, 90), 'renewal required' at 30 to 89 (60,
\* 30), 'URGENT' at 7 to 29 (14, 7), 'CRITICAL' at 6 or less (3, 1); the
\* urgency never decreases as the offset shrinks, and every registered
\* firearm reminder carries the tone of its offset.
C15_SeverityTiers ==
    /\ \A d \in Offsets \cup {0, 6, 29, 89} : Urgency(FirearmTitle(d)) = TierOf(d)
    /\ \A i \in 1..Len(intervals) : intervals[i] \in Offsets
    /\ { d \in Offsets : Urgency(FirearmTitle(d)) = 0 } = {365, 180, 90}
    /\ { d \in Offsets : FirearmTitle(d) = "Renewal required" } = {60, 30}
    /\ { d \in Offsets : FirearmTitle(d) = "URGENT" } = {14, 7}
    /\ { d \in Offsets : FirearmTitle(d) = "CRITICAL" } = {3, 1}
    /\ \A d1, d2 \in Offsets :
          d1 < d2 => Urgency(FirearmTitle(d1)) >= Urgency(FirearmTitle(d2))
    /\ \A p \in pending :
          p.type = "firearm" => /\ p.days \in Offsets
                                /\ p.title = FirearmTitle(p.days)
                                /\ Urgency(p.title) = TierOf(p.days)

\* a record has a registered reminder at each of the nine offsets
C15_Witness ==
    \E id \in RecordIds :
        /\ { p.days : p \in FirearmPending(id) } = Offsets
        /\ { Urgency(p.title) : p \in FirearmPending(id) } = 0..3


\* the text a proxy's answer holds once its envelope is taken off: the
\* contents member of the JSON of allorigins, the body itself otherwise
NormalisedText(proxy, response) ==
    IF response.kind # "response" \/ ~response.ok THEN EmptyText
    ELSE IF proxy = "allorigins.win"
    THEN IF response.body.json /\ response.body.hasContents
         THEN response.body.contents ELSE EmptyText
    ELSE response.body.text

\* an attempt has failed: a timeout or another rejection, a response that
\* is not 2xx, or no text but white space inside the envelope
AttemptFailed(entry) ==
    \/ entry.response.kind = "reject"
    \/ ~entry.response.ok
    \/ NormalisedText(entry.proxy, entry.response).kind # "html"

\* C16: the proxies are tried one at a time in the order allorigins,
\* corsproxy.io, cors-anywhere, codetabs: at most one request is in flight,
\* the k-th attempt goes to the k-th proxy, a request to proxy i+1 is in
\* flight or ended only when the attempts at proxies 1..i have ended in
\* failure (timeout, non-2xx, blank text after the envelope is taken off),
\* and after a successful attempt no request is sent.
C16_ProxiesInOrder ==
    /\ CORS_PROXIES = << "allorigins.win", "corsproxy.io", "cors-anywhere", "codetabs" >>
    /\ Cardinality(fetch.inFlight) <= 1
    /\ Len(fetch.log) <= Len(CORS_PROXIES)
    /\ \A k \in 1..Len(fetch.log) :
          /\ fetch.log[k].proxy = CORS_PROXIES[k]
          /\ fetch.log[k].outcome.ok <=> ~AttemptFailed(fetch.log[k])
          /\ k < Len(fetch.log) => AttemptFailed(fetch.log[k])
    /\ fetch.inFlight # {} =>
          /\ fetch.inFlight = {Len(fetch.log) + 1}
          /\ \A k \in 1..Len(fetch.log) : AttemptFailed(fetch.log[k])
    /\ (fetch.pc = "done" /\ fetch.inFlight = {}) \/ fetch.pc = "idle"
          \/ (fetch.pc = "fetching" /\ fetch.inFlight # {})

\* the third proxy delivers after a timeout at the first and a 500 at the
\* second: the lookup is over and the fourth proxy was never asked
C16_Witness ==
    /\ fetch.pc = "done"
    /\ Len(fetch.log) = 3
    /\ fetch.log[1].response.kind = "reject"
    /\ fetch.log[2].response.kind = "response" /\ ~fetch.log[2].response.ok
    /\ fetch.log[3].outcome.ok
    /\ fetch.inFlight = {}


\* C17: when a lookup ends with a proxy that delivered, its result is the
\* one a lookup configured with that proxy alone gives for the same answer,
\* and it is the parse of the text inside that proxy's envelope: it does
\* not depend on which proxies failed before, nor on how they failed.
C17_FirstSuccessDecides ==
    (fetch.pc = "done" /\ Len(fetch.log) >= 1
        /\ fetch.log[Len(fetch.log)].outcome.ok) =>
        /\ fetch.result =
              << fetchFirearmStatus(<< fetch.log[Len(fetch.log)].proxy >>,
                                    << fetch.log[Len(fetch.log)].response >>,
                                    fetch.dateApplied, fetch.finished) >>
        /\ fetch.result =
              << ParseStatus(NormalisedText(fetch.log[Len(fetch.log)].proxy,
                                            fetch.log[Len(fetch.log)].response),
                             fetch.dateApplied, fetch.finished) >>
        /\ fetch.result =
              << fetchFirearmStatus(CORS_PROXIES,
                    [k \in 1..Len(fetch.log) |-> fetch.log[k].response],
                    fetch.dateApplied, fetch.finished) >>

\* three proxies fail in three different ways and the fourth delivers a
\* page with a full data row
C17_Witness ==
    /\ fetch.pc = "done"
    /\ Len(fetch.log) = 4
    /\ fetch.log[1].response.kind = "response" /\ fetch.log[1].response.ok
    /\ fetch.log[2].response.kind = "reject"
    /\ fetch.log[3].response.kind = "response" /\ ~fetch.log[3].response.ok
    /\ fetch.log[4].outcome.ok
    /\ fetch.result[1].success


\* the cause an attempt failed with, as the catch block of the loop keeps it
CauseOf(entry) ==
    IF entry.response.kind = "reject" /\ ~entry.response.isError
    THEN <<"Unknown proxy error">>
    ELSE entry.outcome.message

AggregatePrefix == "All CORS proxies failed. Last error: "

\* C18: when a lookup ends without a proxy that delivered, exactly four
\* attempts were made, one to each proxy, all failed, and the one error
\* fetchWithProxy throws is the aggregate whose cause is that of the last
\* proxy attempted, whatever the earlier causes were; the lookup's result
\* is a failure whose message is this aggregate, unless the cause holds one
\* of the words the catch block of fetchFirearmStatus replaces by a
\* general message.
C18_AggregateCarriesLastCause ==
    (fetch.pc = "done" /\ Len(fetch.log) >= 1
        /\ ~fetch.log[Len(fetch.log)].outcome.ok) =>
        /\ Len(fetch.log) = 4
        /\ \A k \in 1..4 : AttemptFailed(fetch.log[k])
        /\ fetch.lastError = << CauseOf(fetch.log[4]) >>
        /\ fetchWithProxy(CORS_PROXIES, [k \in 1..4 |-> fetch.log[k].response])
              = [ ok |-> FALSE, attempts |-> 4,
                  message |-> <<AggregatePrefix>> \o CauseOf(fetch.log[4]) ]
        /\ fetch.result
              = << StatusCatch(<<AggregatePrefix>> \o CauseOf(fetch.log[4])) >>
        /\ ~fetch.result[1].success
        /\ (\A w \in {"timeout", "Network", "proxy"} :
                ~Includes(CauseOf(fetch.log[4]), w))
              => fetch.result[1].error
                   = << <<AggregatePrefix>> \o CauseOf(fetch.log[4]) >>

\* all four proxies fail, the first by a timeout and the last with a 500,
\* and the result names the 500
C18_Witness ==
    /\ fetch.pc = "done"
    /\ Len(fetch.log) = 4
    /\ fetch.log[1].response.kind = "reject"
    /\ fetch.log[4].response.kind = "response" /\ ~fetch.log[4].response.ok
    /\ CauseOf(fetch.log[1]) # CauseOf(fetch.log[4])
    /\ fetch.result[1].error
          = << <<AggregatePrefix, "HTTP ", "500", ": ", "Internal Server Error">> >>


\* a lookup has thrown nothing to its caller; while it runs it has no
\* result, and once it is over it has one result after one to four
\* attempts, which is a success with a status record and no error message,
\* or a failure with an error message and no status record
ResultIsOneOutcome ==
    /\ ~fetch.threw
    /\ fetch.pc # "done" => fetch.result = <<>>
    /\ fetch.pc = "done" =>
          /\ Len(fetch.result) = 1
          /\ Len(fetch.log) \in 1..4
          /\ fetch.result[1].success =>
                Len(fetch.result[1].status) = 1 /\ fetch.result[1].error = <<>>
          /\ ~fetch.result[1].success =>
                Len(fetch.result[1].error) = 1 /\ fetch.result[1].status = <<>>

\* C19: fetchFirearmStatus never throws and always ends with a result:
\* every lookup that was started comes to an end, after at most four proxy
\* attempts, with either a success and its status record or a failure and
\* its error message, never both and never neither.
C19_AlwaysAResult ==
    /\ []ResultIsOneOutcome
    /\ (fetch.pc = "fetching") ~> (fetch.pc = "done")

\* all four proxies were rejected, the last one by its timeout, and the
\* lookup ended with the failure value for a timeout
C19_Witness ==
    /\ fetch.pc = "done"
    /\ Len(fetch.log) = 4
    /\ \A k \in 1..4 : fetch.log[k].response.kind = "reject"
    /\ ~fetch.result[1].success
    /\ fetch.result[1].error =
          << <<"Request timeout: SAPS website is taking too long to respond. Please try again.">> >>


\* the page inside the envelope of the proxy that delivered
DeliveredPage ==
    NormalisedText(fetch.log[Len(fetch.log)].proxy,
                   fetch.log[Len(fetch.log)].response).page

\* C20: when the page a proxy delivered has no table of class 'table', the
\* result is the 'no results found' failure if the page has a form and the
\* 'no results table found, the page format may have changed' failure
\* otherwise; the two messages differ from each other and from the one for
\* a table without data rows, and neither result holds a status record.
C20_NoTableOutcomes ==
    /\ NoResultsFound # NoResultsTable
    /\ NoDataRows \notin {NoResultsFound, NoResultsTable}
    /\ (fetch.pc = "done" /\ Len(fetch.log) >= 1
           /\ fetch.log[Len(fetch.log)].outcome.ok
           /\ ~DeliveredPage.table) =>
          /\ ~fetch.result[1].success
          /\ fetch.result[1].status = <<>>
          /\ DeliveredPage.form => fetch.result[1].error = <<NoResultsFound>>
          /\ ~DeliveredPage.form => fetch.result[1].error = <<NoResultsTable>>

\* the second proxy delivers the enquiry form without a results table
C20_Witness ==
    /\ fetch.pc = "done"
    /\ Len(fetch.log) = 2
    /\ fetch.log[2].outcome.ok
    /\ DeliveredPage = FormPage
    /\ fetch.result[1].error = <<NoResultsFound>>


\* the text a status field shows for a cell: trimmed, or the fallback when
\* nothing is left
Shown(cell, fallback) ==
    IF TrimCell(cell) = "" THEN fallback ELSE TrimCell(cell)

\* C21: when a proxy delivered a page with a results table, the result is
\* a success exactly when the table has a row after the header row and that
\* row has at least 10 cells; the status record then takes type from cell
\* 0, number from cell 1, calibre from cell 3, make from cell 4, status from
\* cell 7, description from cell 8 and next step from cell 9 of that row,
\* and putting any other text into cell 2, 5 or 6 gives the same result; a
\* table with the header row only or with fewer than 10 cells in that row
\* gives a failure and no status record.
C21_StatusFromFirstDataRow ==
    (fetch.pc = "done" /\ Len(fetch.log) >= 1
        /\ fetch.log[Len(fetch.log)].outcome.ok
        /\ DeliveredPage.table) =>
        /\ fetch.result[1].success
              <=> (Len(DeliveredPage.rows) >= 2 /\ Len(DeliveredPage.rows[2]) >= 10)
        /\ ~fetch.result[1].success => fetch.result[1].status = <<>>
        /\ fetch.result[1].success =>
              /\ fetch.result[1].status[1].type
                    = Shown(DeliveredPage.rows[2][1], "Unknown")
              /\ fetch.result[1].status[1].number
                    = Shown(DeliveredPage.rows[2][2], "Unknown")
              /\ fetch.result[1].status[1].calibre
                    = Shown(DeliveredPage.rows[2][4], "Unknown")
              /\ fetch.result[1].status[1].make
                    = Shown(DeliveredPage.rows[2][5], "Unknown")
              /\ fetch.result[1].status[1].status
                    = Shown(DeliveredPage.rows[2][8], "Unknown")
              /\ fetch.result[1].status[1].description
                    = Shown(DeliveredPage.rows[2][9], "No description available")
              /\ fetch.result[1].status[1].nextStep
                    = Shown(DeliveredPage.rows[2][10], "No next step information")
              /\ \A k \in {3, 6, 7}, text \in {"", "other", " Approved "} :
                    StatusOfRows([DeliveredPage.rows EXCEPT ![2][k] = text],
                                 fetch.dateApplied, fetch.finished)
                      = fetch.result[1]

\* a page whose first data row has ten cells, one of them blank and one
\* padded, followed by another data row, was delivered
C21_Witness ==
    /\ fetch.pc = "done"
    /\ fetch.log[Len(fetch.log)].outcome.ok
    /\ DeliveredPage = FullRowPage
    /\ fetch.result[1].success
    /\ fetch.result[1].status[1].make = "Unknown"
    /\ fetch.result[1].status[1].status = "Approved"


\* the number of working days among the calendar days first..last
InclusiveWorkingDays ==
    [ p \in LookupDateChoices \X {BaseDay, BaseDay + 1} |->
        Cardinality({ d \in p[1]..p[2] : isWorkingDay(DateFromISO(d)) }) ]

\* C22: the flag isOverdue of a status record is true exactly when its
\* workingDaysPending exceeds 90, workingDaysPending is the number of
\* working days from the application date to today, both included, and the
\* overdue warning the application list computes for the same application
\* on the same day has the value of the flag.
C22_OverdueAgrees ==
    (fetch.pc = "done" /\ fetch.result[1].success) =>
        /\ fetch.result[1].status[1].isOverdue
              <=> fetch.result[1].status[1].workingDaysPending > 90
        /\ fetch.result[1].status[1].workingDaysPending
              = InclusiveWorkingDays[<<fetch.dateApplied, LocalDay(fetch.finished)>>]
        /\ LocalDay(now) = LocalDay(fetch.finished) =>
              (OverdueWarning(fetch.dateApplied, now)
                 <=> fetch.result[1].status[1].isOverdue)


\* the SAST wall clock is within 00:00:00 to 00:29:59
InDowntimeWindow(t) == (t + 2 * 3600) % 86400 < 30 * 60

\* the errors a lookup that went through the fetch pipeline can end with
PipelineErrors ==
    { StatusCatch(AllFailed(CaughtError(<<>>, Thrown(r.message)))).error : r \in Rejections }
    \cup { <<NoResultsFound>>, <<NoResultsTable>>, <<NoDataRows>>,
           << <<"Failed to fetch status">> >> }

\* the step is a run of handleCheckStatus
CheckStatusRan == last'.op = "handleCheckStatus" /\ steps' = steps /\ now' = now

\* C23: a status lookup started while SAST is within 00:00 (inclusive) to
\* 00:30 (exclusive) short-circuits: it builds no query and attempts no
\* proxy (the lookup state is left as it was, nothing is loading) and its
\* outcome is the planned-downtime message, which is none of the messages
\* of the fetch pipeline; a lookup started at any other time, exactly 00:30
\* included, builds the query and sends the request to the first proxy.
C23_DowntimeShortCircuits ==
    [][ CheckStatusRan =>
          IF InDowntimeWindow(now)
          THEN /\ fetch' = fetch
               /\ list'.loadingStatus = list.loadingStatus
               /\ list'.statusError = <<PlannedDowntime>>
               /\ list'.statusError \notin PipelineErrors
          ELSE /\ fetch'.pc = "fetching"
               /\ fetch'.proxy = 1
               /\ fetch'.inFlight = {1}
               /\ fetch'.log = <<>>
               /\ list'.loadingStatus = <<last'.rec>>
               /\ list'.statusError = <<>> ]_vars

\* a lookup at 00:29:59 SAST was short-circuited before any lookup was made
C23_Witness ==
    /\ last.op = "handleCheckStatus"
    /\ now = ListNowChoices[3]
    /\ list.statusError = <<PlannedDowntime>>
    /\ fetch = NoFetch

\* a lookup at exactly 00:30:00 SAST went to the first proxy
C23_WitnessAtEnd ==
    /\ last.op = "handleCheckStatus"
    /\ now = ListNowChoices[4]
    /\ fetch.pc = "fetching"
    /\ fetch.log = <<>>


\* the two parameters of a search method and the field each one carries
MethodParameters(searchMethod) ==
    CASE searchMethod \in {"", "REF_ID"} ->
           [fref |-> "applicationRefNumber", frid |-> "idNumber"]
      [] searchMethod = "SERIAL_REF" ->
           [fserial |-> "serialNumber", fsref |-> "gunReference"]
      [] searchMethod = "ID_SERIAL" ->
           [fid |-> "idNumber", fiserial |-> "serialNumber"]

Spaces(n) == [i \in 1..n |-> Space]

\* value is text without the white space around it, and is not empty
IsTrimmedOf(value, text) ==
    /\ value # <<>>
    /\ value[1] # Space
    /\ value[Len(value)] # Space
    /\ \E a, b \in 0..Len(text) : text = Spaces(a) \o value \o Spaces(b)

\* query carries exactly the two parameters of the application's method
QueryOfMethod(query, application) ==
    LET parameters == MethodParameters(application.searchMethod)
    IN  /\ DOMAIN query = DOMAIN parameters
        /\ \A key \in DOMAIN parameters :
              IsTrimmedOf(query[key], application[parameters[key]])

\* a record stored before the search methods existed
LegacyApplication ==
    [ id |-> 0, searchMethod |-> "", applicationRefNumber |-> <<"REF1", Space>>,
      idNumber |-> ValidId, serialNumber |-> <<>>, gunReference |-> <<>> ]

\* C24: for every stored application, the query built for a lookup carries
\* exactly the two parameters of its search method (REF_ID: fref and frid;
\* SERIAL_REF: fserial and fsref; ID_SERIAL: fid and fiserial; a missing
\* search method is treated as REF_ID), each with a non-empty trimmed value,
\* and never a parameter of another method or an empty parameter.
C24_QueryOfSearchMethod ==
    [][ (CheckStatusRan /\ fetch' # fetch) =>
          /\ QueryOfMethod(fetch'.query, ApplicationDetails(last'.rec))
          /\ QueryOfMethod(URLSearchParams(SearchParams(LegacyApplication)),
                           LegacyApplication) ]_vars

\* a lookup is in flight for a SERIAL_REF application that also holds a
\* reference number and an ID number: its query has fserial and fsref only
C24_Witness ==
    /\ fetch.pc = "fetching"
    /\ list.loadingStatus # <<>>
    /\ ApplicationDetails(list.loadingStatus[1]).searchMethod = "SERIAL_REF"
    /\ ApplicationDetails(list.loadingStatus[1]).applicationRefNumber # <<>>
    /\ ApplicationDetails(list.loadingStatus[1]).gunReference = <<"GR1", Space>>
    /\ DOMAIN fetch.query = {"fserial", "fsref"}
    /\ fetch.query["fsref"] = <<"GR1">>


\* the last function applied was op, and it has returned
Returns(op) == last.op = op /\ last.result # <<>>

\* civil date a is not after civil date b
NotAfter(a, b) ==
    \/ a[1] < b[1]
    \/ a[1] = b[1] /\ a[2] < b[2]
    \/ a[1] = b[1] /\ a[2] = b[2] /\ a[3] <= b[3]

\* C25: calculateWorkingDays(start, end) is the number of dates d in the
\* inclusive range [start, end], walking day by day from start, for which
\* isWorkingDay(d) holds; for two dates at the same time of day that is the
\* number of working calendar days from start's day to end's day, both
\* included; calculateWorkingDays(d, d) is 1 for a working day and 0 for a
\* weekend day or public holiday.
C25_InclusiveCount ==
    Returns("calculateWorkingDays") =>
        LET start == DateAt(last.civil, last.timeOfDay)
            end == DateAt(last.endCivil, last.endTimeOfDay)
        IN  /\ last.result[1] =
                 Cardinality({ k \in 0..Cardinality(CountDates) :
                                 /\ start + k * SecondsPerDay <= end
                                 /\ isWorkingDay(start + k * SecondsPerDay) })
            /\ last.timeOfDay = last.endTimeOfDay =>
                 last.result[1] =
                   Cardinality({ c \in CountDates :
                                   /\ NotAfter(last.civil, c)
                                   /\ NotAfter(c, last.endCivil)
                                   /\ isWorkingDay(DateAt(c, last.timeOfDay)) })
            /\ start = end =>
                 last.result[1] = IF isWorkingDay(start) THEN 1 ELSE 0

\* the count from 2024-03-15 to 2024-04-03 is 11: Human Rights Day, Good
\* Friday, Family Day and three weekends are left out
C25_Witness ==
    /\ Returns("calculateWorkingDays")
    /\ last.civil = <<2024, 3, 15>>
    /\ last.endCivil = <<2024, 4, 3>>
    /\ last.timeOfDay = last.endTimeOfDay
    /\ last.result = <<11>>

\* Good Friday 2024 counted to itself gives 0
C25_WitnessHoliday ==
    /\ Returns("calculateWorkingDays")
    /\ last.civil = <<2024, 3, 29>>
    /\ last.endCivil = <<2024, 3, 29>>
    /\ last.timeOfDay = last.endTimeOfDay
    /\ last.result = <<0>>

\* C26: calculateWorkingDays(start, end) is 0 for every pair with start
\* after end, and is never negative.
C26_NoNegativeCount ==
    Returns("calculateWorkingDays") =>
        /\ last.result[1] >= 0
        /\ DateAt(last.civil, last.timeOfDay)
             > DateAt(last.endCivil, last.endTimeOfDay) => last.result[1] = 0

\* the count from 2024-04-03 back to 2024-03-15 is 0
C26_Witness ==
    /\ Returns("calculateWorkingDays")
    /\ last.civil = <<2024, 4, 3>>
    /\ last.endCivil = <<2024, 3, 15>>
    /\ last.result = <<0>>

\* the day of the week of a civil date, 0 = Sunday .. 6 = Saturday, counted
\* from Sunday 2024-03-31
WeekDayOf(civil) ==
    (DaysFromCivil(civil[1], civil[2], civil[3]) + 7 * 1000
       - DaysFromCivil(2024, 3, 31)) % 7

\* C27: isWorkingDay(d) is false for every Saturday and Sunday whatever the
\* holiday status, false for every public holiday, true for any other date.
C27_WorkingDay ==
    Returns("isWorkingDay") =>
        LET holiday == isPublicHoliday(DateAt(last.civil, last.timeOfDay))
        IN  /\ WeekDayOf(last.civil) \in {0, 6} => last.result = <<FALSE>>
            /\ holiday => last.result = <<FALSE>>
            /\ (WeekDayOf(last.civil) \notin {0, 6} /\ ~holiday)
                 => last.result = <<TRUE>>

\* Human Rights Day 2024, a Thursday, is no working day
C27_Witness ==
    /\ Returns("isWorkingDay")
    /\ last.civil = <<2024, 3, 21>>
    /\ WeekDayOf(last.civil) = 4
    /\ last.result = <<FALSE>>

\* the published dates of Easter Sunday, Good Friday and Family Day
PublishedEaster ==
    [ year \in 2020..2030 |->
        CASE year = 2020 -> << <<4, 12>>, <<4, 10>>, <<4, 13>> >>
          [] year = 2021 -> << <<4, 4>>, <<4, 2>>, <<4, 5>> >>
          [] year = 2022 -> << <<4, 17>>, <<4, 15>>, <<4, 18>> >>
          [] year = 2023 -> << <<4, 9>>, <<4, 7>>, <<4, 10>> >>
          [] year = 2024 -> << <<3, 31>>, <<3, 29>>, <<4, 1>> >>
          [] year = 2025 -> << <<4, 20>>, <<4, 18>>, <<4, 21>> >>
          [] year = 2026 -> << <<4, 5>>, <<4, 3>>, <<4, 6>> >>
          [] year = 2027 -> << <<3, 28>>, <<3, 26>>, <<3, 29>> >>
          [] year = 2028 -> << <<4, 16>>, <<4, 14>>, <<4, 17>> >>
          [] year = 2029 -> << <<4, 1>>, <<3, 30>>, <<4, 2>> >>
          [] year = 2030 -> << <<4, 21>>, <<4, 19>>, <<4, 22>> >> ]

\* C28: for every year from 2020 to 2030 getEasterDate returns the
\* published Easter Sunday, and the computed Good Friday and Family Day are
\* the days 2 before and 1 after it, also across a month boundary.
C28_EasterDates ==
    Returns("getEasterDate") =>
        LET year == last.civil[1]
            published == PublishedEaster[year]
            easter == last.result[1].easter
        IN  /\ easter = DateAt(<<year, published[1][1], published[1][2]>>, 0)
            /\ WeekDayOf(<<year, published[1][1], published[1][2]>>) = 0
            /\ last.result[1].holidays = {published[2], published[3]}
            /\ DateAt(<<year, published[2][1], published[2][2]>>, 0)
                 = easter - 2 * SecondsPerDay
            /\ DateAt(<<year, published[3][1], published[3][2]>>, 0)
                 = easter + SecondsPerDay

\* Easter Sunday 2024-03-31 gives Good Friday 03-29 and Family Day 04-01
C28_Witness ==
    /\ Returns("getEasterDate")
    /\ last.civil[1] = 2024
    /\ last.result[1].easter = DateAt(<<2024, 3, 31>>, 0)
    /\ last.result[1].holidays = {<<3, 29>>, <<4, 1>>}

\* the ten fixed public holidays
TenFixedDates ==
    { <<1, 1>>, <<3, 21>>, <<4, 27>>, <<5, 1>>, <<6, 16>>, <<8, 9>>,
      <<9, 24>>, <<12, 16>>, <<12, 25>>, <<12, 26>> }

\* the Mondays after a fixed holiday that falls on a Sunday
MondaysAfter == { <<2024, 6, 17>>, <<2023, 1, 2>>, <<2021, 12, 27>> }

\* C29: isPublicHoliday(d) is true exactly when d's month-day is one of the
\* ten fixed dates or d is the Good Friday or Family Day of d's own year;
\* no observed-holiday shifting is applied, so the Monday after a fixed
\* holiday that falls on a Sunday is a working day.
C29_PublicHolidays ==
    /\ Returns("isPublicHoliday") =>
         last.result[1] <=>
           \/ <<last.civil[2], last.civil[3]>> \in TenFixedDates
           \/ <<last.civil[2], last.civil[3]>>
                \in { PublishedEaster[last.civil[1]][2],
                      PublishedEaster[last.civil[1]][3] }
    /\ (Returns("isWorkingDay") /\ last.civil \in MondaysAfter) =>
         /\ WeekDayOf(last.civil) = 1
         /\ WeekDayOf(<<last.civil[1], last.civil[2], last.civil[3] - 1>>) = 0
         /\ <<last.civil[2], last.civil[3] - 1>> \in TenFixedDates
         /\ last.result = <<TRUE>>

\* Monday 2024-06-17, the day after Youth Day on a Sunday, is no holiday
C29_Witness ==
    /\ Returns("isPublicHoliday")
    /\ last.civil = <<2024, 6, 17>>
    /\ last.result = <<FALSE>>


\* the validity in years of the twelve sections of the catalog
CatalogYears ==
    [ section \in { "section_13", "section_14", "section_15", "section_16",
                    "section_17", "section_19", "section_20_hunting",
                    "section_20_other", "section_20_theatre",
                    "section_20_security", "section_20_training",
                    "section_20_game" } |->
        IF section \in {"section_13", "section_20_hunting"} THEN 5
        ELSE IF section \in {"section_15", "section_16", "section_17", "section_19"}
        THEN 10 ELSE 2 ]

\* the date a number of years after a date; 29 February gives 1 March, as
\* the years of the catalog never lead to a leap year
YearsAfter(date, years) ==
    IF date[2] = 2 /\ date[3] = 29
    THEN DaysFromCivil(date[1] + years, 3, 1)
    ELSE DaysFromCivil(date[1] + years, date[2], date[3])

\* C30: after every add and every edit of a firearm record the stored
\* expiry date is the issue date plus the validity in years of the record's
\* section, taken from the catalog of twelve sections, also after an edit
\* that changes the section only or the issue date only; no record holds an
\* expiry date set otherwise.
C30_ExpiryDerived ==
    /\ Len(details.firearms) = Len(firearms)
    /\ \A i \in 1..Len(firearms) :
          /\ details.firearms[i].id = firearms[i].id
          /\ details.firearms[i].section \in DOMAIN CatalogYears
          /\ firearms[i].expiryDate =
                YearsAfter(details.firearms[i].issueDate,
                           CatalogYears[details.firearms[i].section])

\* an edit left the record of the first form with section 16: ten years
C30_Witness ==
    /\ last.op = "handleFirearmUpdate"
    /\ Len(firearms) > 0
    /\ details.firearms[1].issueDate = <<2019, 9, 20>>
    /\ details.firearms[1].section = "section_16"
    /\ firearms[1].expiryDate = DaysFromCivil(2029, 9, 20)

\* a record issued on 29 February 2020 for five years expires on 2025-03-01
C30_WitnessLeapDay ==
    /\ Len(firearms) > 0
    /\ details.firearms[1].issueDate = <<2020, 2, 29>>
    /\ firearms[1].expiryDate = DaysFromCivil(2025, 3, 1)

----------------------------------------------------------------------------
\* C31: while a handleCheckStatus call for application X awaits its lookup,
\* the check-status control of X is disabled, so that no two suspended calls
\* are for the same application, also when a call for another application
\* started or settled in the meantime.
C31_NoOverlappingLookups ==
    /\ \A i \in DOMAIN lookups : CheckStatusDisabled(lookups[i].id)
    /\ \A i, j \in DOMAIN lookups : lookups[i].id = lookups[j].id => i = j

\* C32: a cancelFirearmNotifications call for record X that resumes after its
\* await (on its own or inside a scheduling task for X) leaves the persisted
\* entries of every other record as they are at that moment, whatever tasks
\* of other records ran while it was suspended.
C32_OthersEntriesKept ==
    [][ \A i \in DOMAIN tasks, granted \in BOOLEAN :
          (tasks[i].pc = "cancel" /\ resumeTask(i, granted))
             => OtherEntries(schedule', tasks[i].firearm.id)
                  = OtherEntries(schedule, tasks[i].firearm.id) ]_vars

\* the reminder ids two persisted schedules track, each with its owner
TrackedIds(sched, appSched) ==
    UNION { { <<"firearm", sched[i].firearmId, id>> :
                id \in Range(sched[i].notificationIds) } :
            i \in DOMAIN sched }
    \cup { <<"application_pending", appSched[i].applicationId,
             appSched[i].notificationId>> : i \in DOMAIN appSched }

\* no id is tracked for two records, and every tracked id is the id of a
\* registered reminder of the record it is tracked for
IdsApart(sched, appSched, registered) ==
    \A t \in TrackedIds(sched, appSched) :
        /\ \A u \in TrackedIds(sched, appSched) : u[3] = t[3] => u = t
        /\ \E p \in registered : p.id = t[3] /\ p.type = t[1] /\ p.ref = t[2]

\* C33: when the app is started again with the persisted schedules and the
\* registered reminders in order, and the counter begins at 1000 anew, the
\* startup rescheduling leaves them in order: no reminder id is tracked for
\* two records, and every tracked id is still the id of a live reminder of
\* its record, so that no record's scheduling or cancelling has replaced or
\* cancelled a reminder of another record.
C33_RestartKeepsIdsApart ==
    [][ ( /\ last'.op = "appStart"
          /\ last'.arg = TRUE
          /\ steps' = steps + 1
          /\ IdsApart(schedule, applicationSchedule, pending) )
        => IdsApart(schedule', applicationSchedule', pending') ]_vars

\* the native call of a scheduleFirearmNotifications run that registers the
\* reminders: the second when the record has an entry to cancel first
ScheduleCallOf(id) == IF FirearmEntryIds(schedule, id) # <<>> THEN {2} ELSE {1}

\* a handler that calls cancelFirearmNotifications(id) ran, and the native
\* cancel was rejected
CancelRejected(id) ==
    /\ FirearmEntryIds(schedule, id) # <<>>
    /\ \/ confirmFirearmDelete(id, {1})
       \/ handleFirearmToggle(id, FALSE, {1})

\* a handler that calls scheduleFirearmNotifications for record id with
\* expiry date e ran, and the native schedule call was rejected
ScheduleRejected(id, e) ==
    /\ OffsetsAfter(e, now) # {}
    /\ \/ id = nextRecordId /\ handleFirearmSubmit(e, ScheduleCallOf(id))
       \/ /\ FindRecord(firearms, id) > 0
          /\ firearms[FindRecord(firearms, id)].expiryDate = e
          /\ handleFirearmToggle(id, TRUE, ScheduleCallOf(id))

\* C34: a rejected native cancel leaves the persisted schedule, the record's
\* entry included, and the registered reminders as they were; after a
\* rejected native schedule call the record has no entry and the entries of
\* the other records are as before; in both cases the service method
\* returns normally, without an error for its caller.
C34_RejectionPersistsNothing ==
    [][ \A id \in RecordIds :
          /\ CancelRejected(id) =>
                /\ schedule' = schedule
                /\ pending' = pending
                /\ ~cancelFirearmNotifications(Service({1}), id).threw
          /\ \A e \in ExpiryChoices :
                ScheduleRejected(id, e) =>
                   /\ FirearmEntryIds(schedule', id) = <<>>
                   /\ OtherEntries(schedule', id) = OtherEntries(schedule, id)
                   /\ ~scheduleFirearmNotifications(
                          Service(ScheduleCallOf(id)),
                          [id |-> id, expiryDate |-> e], now).threw ]_vars

\* a delete whose native cancel was rejected: the entry is still there
C34_Witness ==
    /\ last.op = "confirmFirearmDelete"
    /\ last.had # <<>>
    /\ FirearmEntryIds(schedule, last.rec) = last.had

\* a scheduled record is switched on again and the native schedule call was
\* rejected: ids were handed out, the old entry is gone and none was added
C34_WitnessSchedule ==
    /\ last.op = "handleFirearmToggle"
    /\ last.had # <<>>
    /\ last.ids # <<>>
    /\ FirearmEntryIds(schedule, last.rec) = <<>>

\* C35: when a reminder created for an application pending 88 or 89 working
\* days fires, the working days from the application date to the fire date
\* are at least 90.
C35_FiresAtNinety ==
    (last.op = "reminderFires" /\ last.arg \in {OverdueWarnFrom, OverdueWarnFrom + 1})
       => calculateWorkingDays(
             DateFromISO(applications[FindRecord(applications, last.rec)].dateApplied),
             now) >= OverdueFrom

\* the stored records whose setting is switched off, and those without one
SwitchedOff == { k \in DOMAIN firearms :
                   firearms[k].id \in DOMAIN settings /\ ~settings[firearms[k].id] }
NoSetting == { k \in DOMAIN firearms : firearms[k].id \notin DOMAIN settings }

\* record k has an entry with one id for each offset still ahead
ScheduledAhead(k) ==
    Len(FirearmEntryIds(schedule, firearms[k].id))
       = Cardinality(OffsetsAfter(firearms[k].expiryDate, now))

\* C36: a firearm whose setting is false has no entry in the persisted
\* schedule and no registered reminder; a firearm without a stored setting
\* is scheduled when it is added, when it is edited and at startup.
C36_SettingsRespected ==
    /\ \A k \in SwitchedOff :
          /\ FindFirearmSchedule(schedule, firearms[k].id) = 0
          /\ FirearmPending(firearms[k].id) = {}
    /\ \A k \in NoSetting :
          /\ (last.op \in {"handleFirearmSubmit", "handleFirearmUpdate"}
                 /\ last.rec = firearms[k].id)
                => /\ ScheduledAhead(k)
                   /\ PendingIds(FirearmPending(firearms[k].id))
                         = Range(FirearmEntryIds(schedule, firearms[k].id))
          /\ (last.op = "appStart" /\ last.arg = TRUE) => ScheduledAhead(k)

\* the app starts with permission while one record is switched off and
\* another, without a setting, has offsets ahead
C36_Witness ==
    /\ last.op = "appStart" /\ last.arg = TRUE
    /\ SwitchedOff # {}
    /\ \E k \in NoSetting : OffsetsAfter(firearms[k].expiryDate, now) # {}

\* disable-all has switched off two records that had been scheduled
C36_WitnessDisableAll ==
    /\ last.op = "handleDisableAll"
    /\ Cardinality(SwitchedOff) >= 2
    /\ Len(issued) >= 2

\* a text without its blanks and without regard to case: the words of the
\* forms that are the same word get the same number
WordKey ==
    [ w \in {"Glock", "glock", "CZ", "cz", "SN1", "sn1"} |->
        CASE w \in {"Glock", "glock"} -> 1
          [] w \in {"CZ", "cz"} -> 2
          [] OTHER -> 3 ]

TextKey(text) ==
    LET words == SelectSeq(text, LAMBDA w : w # Space)
    IN  [ i \in 1..Len(words) |-> WordKey[words[i]] ]

\* a stored record other than record id has the title and the serial number
\* of the form, and both serial numbers are filled in
DuplicateOf(form, id) ==
    \E i \in DOMAIN details.firearms :
        /\ details.firearms[i].id # id
        /\ TextKey(details.firearms[i].title) = TextKey(form.title)
        /\ TextKey(details.firearms[i].serialNumber) = TextKey(form.serialNumber)
        /\ details.firearms[i].serialNumber # <<>>
        /\ form.serialNumber # <<>>

RejectedAsDuplicate ==
    /\ last'.call = "duplicate"
    /\ firearms' = firearms
    /\ details' = details
    /\ schedule' = schedule
    /\ pending' = pending

\* C37: a complete firearm form is rejected as a duplicate, with the records
\* and the reminders left as they were, exactly when a stored record other
\* than the one being edited has the same title and the same serial number,
\* compared without regard to case and surrounding blanks, and both serial
\* numbers are filled in; otherwise the form is stored.  A form with an empty
\* serial number is never rejected as a duplicate.
C37_DuplicateRejected ==
    [][ \A form \in FirearmFormChoices :
          FirearmFormComplete(form) =>
             /\ firearmFormSubmit(form) =>
                   /\ IF DuplicateOf(form, 0) THEN RejectedAsDuplicate
                      ELSE last'.call # "duplicate" /\ Len(firearms') = Len(firearms) + 1
                   /\ form.serialNumber = <<>> => last'.call # "duplicate"
             /\ \A id \in RecordIds :
                   editFirearmSubmit(id, form) =>
                      /\ IF DuplicateOf(form, id) THEN RejectedAsDuplicate
                         ELSE /\ last'.call # "duplicate"
                              /\ details'.firearms[FindRecord(firearms, id)]
                                    = [id |-> id] @@ form
                      /\ form.serialNumber = <<>> => last'.call # "duplicate" ]_vars

\* the second form, 'glock ' with serial 'sn1', was rejected as a duplicate
\* of the stored first form, 'Glock' with serial 'SN1'
C37_Witness ==
    /\ last.op = "handleFirearmSubmit" /\ last.call = "duplicate"
    /\ Len(details.firearms) = 1
    /\ details.firearms[1].title = <<"Glock">>
    /\ details.firearms[1].serialNumber = <<"SN1">>

\* a record was edited with its own title and serial number while no other
\* record has them, and the edit was stored
C37_WitnessOwnRecord ==
    /\ last.op = "handleFirearmUpdate" /\ last.call # "duplicate"
    /\ Len(details.firearms) = 2
    /\ last.rec = details.firearms[1].id
    /\ details.firearms[1].title = <<"Glock">>
    /\ details.firearms[1].serialNumber = <<"SN1">>
    /\ details.firearms[1].section = "section_16"
    /\ details.firearms[2].title = <<"CZ">>

\* an edit that gives the second record the title and serial number of the
\* first was rejected
C37_WitnessEdit ==
    /\ last.op = "handleFirearmUpdate" /\ last.call = "duplicate"
    /\ Len(details.firearms) = 2

\* C38: the records of a collection have pairwise distinct ids, also after
\* two adds between which the clock did not advance.
C38_DistinctIds ==
    /\ \A i, j \in DOMAIN firearms : firearms[i].id = firearms[j].id => i = j
    /\ \A i, j \in DOMAIN applications :
          applications[i].id = applications[j].id => i = j

\* the probe of a mounted view has run at the mount and then once every
\* interval, and its timer is due one interval after the last run
ProbeOnSchedule ==
    /\ server.started # <<>>
    /\ \A k \in DOMAIN server.started :
          server.started[k] = server.started[1] + (k - 1) * 5 * 60
    /\ server.interval = << server.started[Len(server.started)] + 5 * 60 >>
    /\ now <= server.interval[1]

\* C39: while the view is mounted the probe has run once at the mount and
\* then every 5 minutes, whatever else happened; once the view is torn down
\* no timer is left and no further probe is started.
C39_ProbeTimer ==
    /\ [](server.mounted => ProbeOnSchedule)
    /\ [](~server.mounted => server.interval = <<>>)
    /\ [][~server'.mounted => server'.started = server.started]_vars

\* the view was torn down after its timer had started probes, and the clock
\* has since passed the instant at which the timer would have been due
C39_Witness ==
    /\ ~server.mounted
    /\ Len(server.started) >= 2
    /\ now >= server.started[Len(server.started)] + 5 * 60

\* the third probe of a mounted view, two intervals after the mount
C39_WitnessMounted ==
    /\ server.mounted
    /\ Len(server.started) = 3

====
